---- MODULE Spec2Model ----
(***************************************************************************)
(* Model of HakkaPronunciationConverter (hakka_pronunciation_converter.py) *)
(* and of the paragraph loop of HakkaParser.parse (hakka_parser.py).       *)
(*                                                                         *)
(* A Python str is modelled as a sequence of characters.  Every character  *)
(* is a one-element name: ASCII characters are themselves ("a", "1", " ",  *)
(* "("), every other code point is written "Uxxxx" (U+0301 is "U0301",     *)
(* the em-dash U+2014 is "U2014").                                         *)
(***************************************************************************)
EXTENDS Integers, Sequences, FiniteSets, TLC

VARIABLES dialect, tone_map, original, numbered, marked, pfs, ipa, pc,
          from_main, json_data, entries, is_wrapped, entry_index, processed_count,
          output_file,
          self_entries, current_id, current_pronunciation, pending_character_entry,
          parse_log

\* The state of the batch driver (main and process_json_file).
driver ==
    <<from_main, json_data, entries, is_wrapped, entry_index, processed_count,
      output_file>>

\* The state of HakkaParser.parse (hakka_parser.py): self.entries,
\* self.current_id, the two locals of the paragraph loop, and the list of
\* the paragraphs handled so far with the branch each one took.
parser ==
    <<self_entries, current_id, current_pronunciation, pending_character_entry,
      parse_log>>

vars ==
    <<dialect, tone_map, original, numbered, marked, pfs, ipa, pc, driver, parser>>

\* ------------------------------------------------------------------ bounds

\* Longest pronunciation, counted in chunks (a syllable or a separator run).
MaxChunks == 3

\* ------------------------------------------------- generic string helpers

EMPTY == <<>>

Last(s) == s[Len(s)]

Front(s) == SubSeq(s, 1, Len(s) - 1)

\* str.startswith
StartsWith(s, p) == Len(s) >= Len(p) /\ SubSeq(s, 1, Len(p)) = p

\* str.endswith
EndsWith(s, p) == Len(s) >= Len(p) /\ SubSeq(s, Len(s) - Len(p) + 1, Len(s)) = p

\* s[n:]
DropFirst(s, n) == SubSeq(s, n + 1, Len(s))

\* dict.get(key, default)
Get(map, key, default) == IF key \in DOMAIN map THEN map[key] ELSE default

Min(S) == CHOOSE x \in S : \A y \in S : x <= y

RECURSIVE Concat(_)
\* ''.join(parts)
Concat(parts) == IF parts = <<>> THEN <<>> ELSE Head(parts) \o Concat(Tail(parts))

RECURSIVE ReplaceAll(_, _, _)
\* str.replace(old, new): leftmost non-overlapping occurrences
ReplaceAll(s, old, new) ==
    IF s = <<>> THEN <<>>
    ELSE IF StartsWith(s, old) THEN new \o ReplaceAll(DropFirst(s, Len(old)), old, new)
    ELSE <<Head(s)>> \o ReplaceAll(Tail(s), old, new)

\* ------------------------------------------------ Unicode normalisation

\* Canonical decomposition mapping (UnicodeData) of the precomposed letters
\* over the Latin letters and the combining marks the converter meets.
CanonicalDecomposition ==
    "U00E0" :> <<"a", "U0300">> @@ "U00E1" :> <<"a", "U0301">> @@ "U00E2" :> <<"a", "U0302">> @@
    "U00E3" :> <<"a", "U0303">> @@ "U00E8" :> <<"e", "U0300">> @@ "U00E9" :> <<"e", "U0301">> @@
    "U00EA" :> <<"e", "U0302">> @@ "U00EC" :> <<"i", "U0300">> @@ "U00ED" :> <<"i", "U0301">> @@
    "U00EE" :> <<"i", "U0302">> @@ "U00F1" :> <<"n", "U0303">> @@ "U00F2" :> <<"o", "U0300">> @@
    "U00F3" :> <<"o", "U0301">> @@ "U00F4" :> <<"o", "U0302">> @@ "U00F5" :> <<"o", "U0303">> @@
    "U00F9" :> <<"u", "U0300">> @@ "U00FA" :> <<"u", "U0301">> @@ "U00FB" :> <<"u", "U0302">> @@
    "U00FD" :> <<"y", "U0301">> @@ "U0101" :> <<"a", "U0304">> @@ "U0107" :> <<"c", "U0301">> @@
    "U0109" :> <<"c", "U0302">> @@ "U0113" :> <<"e", "U0304">> @@ "U011D" :> <<"g", "U0302">> @@
    "U0125" :> <<"h", "U0302">> @@ "U0129" :> <<"i", "U0303">> @@ "U012B" :> <<"i", "U0304">> @@
    "U0135" :> <<"j", "U0302">> @@ "U013A" :> <<"l", "U0301">> @@ "U0144" :> <<"n", "U0301">> @@
    "U014D" :> <<"o", "U0304">> @@ "U0155" :> <<"r", "U0301">> @@ "U015B" :> <<"s", "U0301">> @@
    "U015D" :> <<"s", "U0302">> @@ "U0169" :> <<"u", "U0303">> @@ "U016B" :> <<"u", "U0304">> @@
    "U0175" :> <<"w", "U0302">> @@ "U0177" :> <<"y", "U0302">> @@ "U017A" :> <<"z", "U0301">> @@
    "U01F5" :> <<"g", "U0301">> @@ "U01F9" :> <<"n", "U0300">> @@ "U022D" :> <<"U00F5", "U0304">> @@
    "U0233" :> <<"y", "U0304">> @@ "U1E05" :> <<"b", "U0323">> @@ "U1E07" :> <<"b", "U0331">> @@
    "U1E0D" :> <<"d", "U0323">> @@ "U1E0F" :> <<"d", "U0331">> @@ "U1E15" :> <<"U0113", "U0300">> @@
    "U1E17" :> <<"U0113", "U0301">> @@ "U1E21" :> <<"g", "U0304">> @@ "U1E25" :> <<"h", "U0323">> @@
    "U1E31" :> <<"k", "U0301">> @@ "U1E33" :> <<"k", "U0323">> @@ "U1E35" :> <<"k", "U0331">> @@
    "U1E37" :> <<"l", "U0323">> @@ "U1E39" :> <<"U1E37", "U0304">> @@ "U1E3B" :> <<"l", "U0331">> @@
    "U1E3F" :> <<"m", "U0301">> @@ "U1E43" :> <<"m", "U0323">> @@ "U1E47" :> <<"n", "U0323">> @@
    "U1E49" :> <<"n", "U0331">> @@ "U1E4D" :> <<"U00F5", "U0301">> @@ "U1E51" :> <<"U014D", "U0300">> @@
    "U1E53" :> <<"U014D", "U0301">> @@ "U1E55" :> <<"p", "U0301">> @@ "U1E5B" :> <<"r", "U0323">> @@
    "U1E5D" :> <<"U1E5B", "U0304">> @@ "U1E5F" :> <<"r", "U0331">> @@ "U1E63" :> <<"s", "U0323">> @@
    "U1E6D" :> <<"t", "U0323">> @@ "U1E6F" :> <<"t", "U0331">> @@ "U1E73" :> <<"u", "U0324">> @@
    "U1E79" :> <<"U0169", "U0301">> @@ "U1E7D" :> <<"v", "U0303">> @@ "U1E7F" :> <<"v", "U0323">> @@
    "U1E81" :> <<"w", "U0300">> @@ "U1E83" :> <<"w", "U0301">> @@ "U1E89" :> <<"w", "U0323">> @@
    "U1E91" :> <<"z", "U0302">> @@ "U1E93" :> <<"z", "U0323">> @@ "U1E95" :> <<"z", "U0331">> @@
    "U1E96" :> <<"h", "U0331">> @@ "U1EA1" :> <<"a", "U0323">> @@ "U1EA5" :> <<"U00E2", "U0301">> @@
    "U1EA7" :> <<"U00E2", "U0300">> @@ "U1EAB" :> <<"U00E2", "U0303">> @@ "U1EAD" :> <<"U1EA1", "U0302">> @@
    "U1EB9" :> <<"e", "U0323">> @@ "U1EBD" :> <<"e", "U0303">> @@ "U1EBF" :> <<"U00EA", "U0301">> @@
    "U1EC1" :> <<"U00EA", "U0300">> @@ "U1EC5" :> <<"U00EA", "U0303">> @@ "U1EC7" :> <<"U1EB9", "U0302">> @@
    "U1ECB" :> <<"i", "U0323">> @@ "U1ECD" :> <<"o", "U0323">> @@ "U1ED1" :> <<"U00F4", "U0301">> @@
    "U1ED3" :> <<"U00F4", "U0300">> @@ "U1ED7" :> <<"U00F4", "U0303">> @@ "U1ED9" :> <<"U1ECD", "U0302">> @@
    "U1EE5" :> <<"u", "U0323">> @@ "U1EF3" :> <<"y", "U0300">> @@ "U1EF5" :> <<"y", "U0323">> @@
    "U1EF9" :> <<"y", "U0303">>

\* Canonical combining class of a character (0 for a starter).
CombiningClass(c) ==
    IF c \in {"U0323", "U0324", "U0329", "U0331"} THEN 220
    ELSE IF c \in {"U0300", "U0301", "U0302", "U0303", "U0304", "U030D"} THEN 230
    ELSE IF c = "U031A" THEN 232
    ELSE IF c = "U0361" THEN 234
    ELSE 0

RECURSIVE DecomposeChar(_)
\* Full canonical decomposition of one character.
DecomposeChar(c) ==
    IF c \in DOMAIN CanonicalDecomposition
    THEN DecomposeChar(CanonicalDecomposition[c][1]) \o <<CanonicalDecomposition[c][2]>>
    ELSE <<c>>

RECURSIVE InsertMark(_, _)
\* Canonical ordering: a mark moves left over marks of a higher class.
InsertMark(out, c) ==
    IF out # <<>> /\ CombiningClass(c) > 0 /\ CombiningClass(Last(out)) > CombiningClass(c)
    THEN Append(InsertMark(Front(out), c), Last(out))
    ELSE Append(out, c)

RECURSIVE CanonicalOrder(_, _)
CanonicalOrder(out, s) ==
    IF s = <<>> THEN out ELSE CanonicalOrder(InsertMark(out, Head(s)), Tail(s))

RECURSIVE DecomposeAll(_)
DecomposeAll(s) ==
    IF s = <<>> THEN <<>> ELSE DecomposeChar(Head(s)) \o DecomposeAll(Tail(s))

\* unicodedata.normalize('NFD', s)
NFD(s) == CanonicalOrder(<<>>, DecomposeAll(s))

\* The canonical composition mapping: the decomposition mapping inverted.
CanonicalComposition ==
    [pair \in {CanonicalDecomposition[c] : c \in DOMAIN CanonicalDecomposition} |->
        CHOOSE c \in DOMAIN CanonicalDecomposition : CanonicalDecomposition[c] = pair]

\* The primary composite of a starter and a mark, or "" when there is none.
Composite(b, m) ==
    IF <<b, m>> \in DOMAIN CanonicalComposition THEN CanonicalComposition[<<b, m>>] ELSE ""

RECURSIVE ComposeFrom(_, _, _, _)
\* Canonical composition: done is finished text, starter the last starter
\* (or "" before the first), pending the marks kept after it.
ComposeFrom(done, starter, pending, s) ==
    IF s = <<>> THEN done \o (IF starter = "" THEN <<>> ELSE <<starter>>) \o pending
    ELSE LET c == Head(s)
             blocked == pending # <<>> /\ CombiningClass(Last(pending)) >= CombiningClass(c)
         IN  IF CombiningClass(c) = 0
             THEN ComposeFrom(done \o (IF starter = "" THEN <<>> ELSE <<starter>>) \o pending,
                              c, <<>>, Tail(s))
             ELSE IF starter # "" /\ ~blocked /\ Composite(starter, c) # ""
             THEN ComposeFrom(done, Composite(starter, c), pending, Tail(s))
             ELSE ComposeFrom(done, starter, Append(pending, c), Tail(s))

\* unicodedata.normalize('NFC', s)
NFC(s) == ComposeFrom(<<>>, "", <<>>, NFD(s))

\* ------------------------------------------------------ converter tables

DIACRITICS ==
    "U0301" :> "acute" @@ "U0300" :> "grave" @@ "U0304" :> "macron" @@
    "U0331" :> "macron_below" @@ "U0323" :> "dot_below"

SIYEN_TONES ==
    "acute" :> "1" @@ "grave" :> "2" @@ "none" :> "3" @@ "dot_below" :> "4" @@
    "macron_below" :> "5" @@ "none_checked" :> "8"

\* Faulty variant of the hoiliuk table: the macron entry is missing.
HOILIUK_TONES_NoMacron ==
    "grave" :> "1" @@ "acute" :> "2" @@ "macron_below" :> "3" @@
    "none_checked" :> "4" @@ "none" :> "5" @@ "dot_below" :> "8"

HOILIUK_TONES ==
    "grave" :> "1" @@ "acute" :> "2" @@ "macron_below" :> "3" @@
    "none_checked" :> "4" @@ "none" :> "5" @@ "macron" :> "7" @@ "dot_below" :> "8"

CHECKED_FINALS == {"p", "t", "k"}

CONVERTED_FINALS == "p" :> "b" @@ "t" :> "d" @@ "k" :> "g"

INITIALS ==
    << <<"z", "h">>, <<"c", "h">>, <<"s", "h">>, <<"n", "g">>, <<"r", "h">>,
       <<"b", "b">>, <<"g", "g">>, <<"z", "z">>,
       <<"b">>, <<"c">>, <<"d">>, <<"f">>, <<"g">>, <<"h">>, <<"j">>, <<"k">>,
       <<"l">>, <<"m">>, <<"n">>, <<"p">>, <<"q">>, <<"s">>, <<"t">>, <<"v">>,
       <<"x">>, <<"z">> >>

SIYEN_INITIAL_CONVERSION == <<"z">> :> <<"j">> @@ <<"c">> :> <<"q">> @@ <<"s">> :> <<"x">>

\* re character classes: \s and [(),.:;--em-dash--]
WHITESPACE == {" ", "\t", "\n"}

PUNCTUATION == {"(", ")", ",", ".", ":", ";", "U2014"}

\* str.isdigit on the characters of the model's alphabet
IsDigit(c) == c \in {"0", "1", "2", "3", "4", "5", "6", "7", "8", "9"}

\* ------------------------------------------------------ syllable conversion

RECURSIVE BaseChars(_)
BaseChars(s) ==
    IF s = <<>> THEN <<>>
    ELSE IF Head(s) \in DOMAIN DIACRITICS THEN BaseChars(Tail(s))
    ELSE <<Head(s)>> \o BaseChars(Tail(s))

\* tone_types collected from the decomposed syllable, as a set (only membership is used)
ToneTypes(s) == {DIACRITICS[s[i]] : i \in {j \in 1..Len(s) : s[j] \in DOMAIN DIACRITICS}}

priority_order == <<"macron_below", "dot_below", "macron", "acute", "grave">>

\* Faulty variant of PickTone: the last class of priority_order present.
PickTone_LowestPriority(types) ==
    LET hit == {i \in 1..Len(priority_order) : priority_order[i] \in types}
    IN  IF hit = {} THEN "None"
        ELSE priority_order[CHOOSE i \in hit : \A j \in hit : j <= i]

\* The first class of priority_order present, "None" when no class is present.
PickTone(types) ==
    LET hit == {i \in 1..Len(priority_order) : priority_order[i] \in types}
    IN  IF hit = {} THEN "None" ELSE priority_order[Min(hit)]

\* _normalize_and_extract_tone: <<base_syllable, tone_type>>
NormalizeAndExtractTone(syllable) ==
    LET normalized == NFD(syllable)
    IN  <<BaseChars(normalized), PickTone(ToneTypes(normalized))>>

\* _has_checked_final
HasCheckedFinal(syllable) == Len(syllable) > 0 /\ Last(syllable) \in CHECKED_FINALS

\* _split_syllable: <<initial, rhyme>>, the first entry of INITIALS that is a prefix
SplitSyllable(syllable) ==
    LET hit == {i \in 1..Len(INITIALS) : StartsWith(syllable, INITIALS[i])}
    IN  IF hit = {} THEN <<EMPTY, syllable>>
        ELSE <<INITIALS[Min(hit)], DropFirst(syllable, Len(INITIALS[Min(hit)]))>>

\* Faulty variant of _rhyme_starts_with_i_not_ii: "ii" is not told apart.
RhymeStartsWithI(rhyme) == StartsWith(rhyme, <<"i">>)

\* _rhyme_starts_with_i_not_ii
RhymeStartsWithINotII(rhyme) ==
    IF ~StartsWith(rhyme, <<"i">>) THEN FALSE
    ELSE IF StartsWith(rhyme, <<"i", "i">>) THEN FALSE
    ELSE TRUE

\* _convert_initial
ConvertInitial(d, initial, rhyme) ==
    IF d # "siyen" THEN initial
    ELSE IF initial \in DOMAIN SIYEN_INITIAL_CONVERSION /\ RhymeStartsWithINotII(rhyme)
    THEN SIYEN_INITIAL_CONVERSION[initial]
    ELSE initial

\* Faulty variant of _convert_final: the nasal marker is rewritten but the
\* checked final is left as it is.
ConvertFinal_KeepsFinal(syllable) == ReplaceAll(syllable, <<"U207F">>, <<"n", "n">>)

\* _convert_final
ConvertFinal(syllable) ==
    LET s == ReplaceAll(syllable, <<"U207F">>, <<"n", "n">>)
    IN  IF HasCheckedFinal(s) THEN Append(Front(s), CONVERTED_FINALS[Last(s)]) ELSE s

\* Faulty variant of the tone choice: a class missing from the dialect's
\* table is looked up in the hoiliuk table instead of giving "?".
ResolveTone_OtherTable(tmap, tone_type, has_checked) ==
    IF tone_type = "None"
    THEN IF has_checked THEN tmap["none_checked"] ELSE tmap["none"]
    ELSE IF tone_type = "dot_below" /\ has_checked THEN tmap["dot_below"]
    ELSE Get(tmap, tone_type, Get(HOILIUK_TONES, tone_type, "?"))

\* Faulty variant of the tone choice: the checked final is not consulted.
ResolveTone_IgnoresChecked(tmap, tone_type, has_checked) ==
    IF tone_type = "None" THEN tmap["none"] ELSE Get(tmap, tone_type, "?")

\* The tone character chosen at lines 303-318 of convert_syllable.
ResolveTone(tmap, tone_type, has_checked) ==
    IF tone_type = "None"
    THEN IF has_checked THEN tmap["none_checked"] ELSE tmap["none"]
    ELSE IF tone_type = "dot_below" /\ has_checked THEN tmap["dot_below"]
    ELSE Get(tmap, tone_type, "?")

\* str.isspace
IsSpace(s) == s # <<>> /\ \A i \in 1..Len(s) : s[i] \in WHITESPACE

\* convert_syllable
ConvertSyllable(d, tmap, original_syllable) ==
    IF original_syllable = <<>> \/ IsSpace(original_syllable) THEN original_syllable
    ELSE LET bt == NormalizeAndExtractTone(original_syllable)
             base_syllable == bt[1]
             tone_type == bt[2]
             has_checked == HasCheckedFinal(base_syllable)
             ir == SplitSyllable(base_syllable)
             converted_initial == ConvertInitial(d, ir[1], ir[2])
             converted_rhyme == ConvertFinal(ir[2])
             tone == ResolveTone(tmap, tone_type, has_checked)
         IN  converted_initial \o converted_rhyme \o <<tone>>

\* ------------------------------------------------------------- tokenizer

\* The character class that decides how re.split cuts the text.
CharClass(c) ==
    IF c \in WHITESPACE THEN "space" ELSE IF c \in PUNCTUATION THEN "punct" ELSE "other"

RECURSIVE SplitRuns(_, _)
\* re.split(r'(\s+|[(),.:;--em-dash--]+)', text) with the empty parts dropped:
\* the maximal runs of whitespace, of punctuation and of other characters.
SplitRuns(cur, s) ==
    IF s = <<>> THEN (IF cur = <<>> THEN <<>> ELSE <<cur>>)
    ELSE IF cur = <<>> \/ CharClass(Head(s)) = CharClass(Last(cur))
    THEN SplitRuns(Append(cur, Head(s)), Tail(s))
    ELSE <<cur>> \o SplitRuns(<<Head(s)>>, Tail(s))

SplitParts(text) == SplitRuns(<<>>, text)

\* re.match(r'^[\s(),.:;--em-dash--]+$', part)
IsSeparator(part) ==
    part # <<>> /\ \A i \in 1..Len(part) : part[i] \in WHITESPACE \cup PUNCTUATION

\* re.match(r'^[(),.:;--em-dash--]+$', part)
IsPunct(part) == part # <<>> /\ \A i \in 1..Len(part) : part[i] \in PUNCTUATION

\* re.match(r'^\s+$', part)
IsWhitespace(part) == part # <<>> /\ \A i \in 1..Len(part) : part[i] \in WHITESPACE

\* original.replace('--', em-dash)
NormalizeDashes(text) == ReplaceAll(text, <<"-", "-">>, <<"U2014">>)

\* Faulty variant of the per-part conversion: only whitespace is copied,
\* punctuation runs are converted like syllables.
ConvertPart_SpaceOnly(d, tmap, part) ==
    IF IsWhitespace(part) THEN part ELSE ConvertSyllable(d, tmap, part)

\* The per-part conversion of convert_pronunciation's loop.
ConvertPart(d, tmap, part) ==
    IF IsSeparator(part) THEN part ELSE ConvertSyllable(d, tmap, part)

\* convert_pronunciation
ConvertPronunciation(d, tmap, text) ==
    IF text = <<>> THEN <<>>
    ELSE LET parts == SplitParts(NormalizeDashes(text))
         IN  Concat([i \in 1..Len(parts) |-> ConvertPart(d, tmap, parts[i])])

\* ----------------------------------------------------------- marked form

SIYEN_TONE_MARKS ==
    "1" :> <<"U02CA">> @@ "2" :> <<"U02CB">> @@ "3" :> <<>> @@ "4" :> <<"U02CB">> @@
    "5" :> <<"U02C7">> @@ "8" :> <<>>

HOILIUK_TONE_MARKS ==
    "1" :> <<"U02CB">> @@ "2" :> <<"U02CA">> @@ "3" :> <<"U02C7">> @@ "4" :> <<>> @@
    "5" :> <<>> @@ "7" :> <<"+">> @@ "8" :> <<"U02CB">>

ToneMarks(d) == IF d = "siyen" THEN SIYEN_TONE_MARKS ELSE HOILIUK_TONE_MARKS

\* Faulty variant of the per-part marking: the tone digit is not stripped.
MarkPart_KeepsDigit(d, part) ==
    IF IsSeparator(part) THEN part
    ELSE IF part # <<>> /\ IsDigit(Last(part))
    THEN part \o Get(ToneMarks(d), Last(part), <<>>)
    ELSE part

\* The per-part conversion of numbered_to_marked's loop.
MarkPart(d, part) ==
    IF IsSeparator(part) THEN part
    ELSE IF part # <<>> /\ IsDigit(Last(part))
    THEN Front(part) \o Get(ToneMarks(d), Last(part), <<>>)
    ELSE part

\* numbered_to_marked
NumberedToMarked(d, text) ==
    IF text = <<>> THEN <<>>
    ELSE LET parts == SplitParts(text)
         IN  Concat([i \in 1..Len(parts) |-> MarkPart(d, parts[i])])

\* -------------------------------------------------------------- PFS form

PFS_INITIAL_MAP ==
    <<"b">> :> <<"p">> @@ <<"p">> :> <<"p", "h">> @@ <<"d">> :> <<"t">> @@
    <<"t">> :> <<"t", "h">> @@ <<"g">> :> <<"k">> @@ <<"k">> :> <<"k", "h">> @@
    <<"z">> :> <<"c", "h">> @@ <<"c">> :> <<"c", "h", "h">> @@ <<"j">> :> <<"c", "h">> @@
    <<"q">> :> <<"c", "h", "h">> @@ <<"x">> :> <<"s">>

PFS_ENDING_MAP == <<"b">> :> <<"p">> @@ <<"d">> :> <<"t">> @@ <<"g">> :> <<"k">>

PFS_TONE_MARKS ==
    "1" :> <<"U0302">> @@ "2" :> <<"U0301">> @@ "3" :> <<>> @@ "4" :> <<>> @@
    "5" :> <<"U0300">> @@ "8" :> <<"U030D">>

\* s[:n] for n >= 0
Prefix(s, n) == SubSeq(s, 1, IF n > Len(s) THEN Len(s) ELSE n)

\* str.find(c) for a one-character c: the first index (from 0), or -1
Find(s, c) ==
    LET hit == {i \in 1..Len(s) : s[i] = c}
    IN  IF hit = {} THEN -1 ELSE Min(hit) - 1

\* _convert_pfs_nucleus
ConvertPfsNucleus(nucleus) ==
    IF nucleus = <<"i", "i">> THEN <<"U1E73">>
    ELSE IF nucleus = <<"u", "a">> THEN <<"o", "a">>
    ELSE IF nucleus = <<"u", "e">> THEN <<"o", "e">>
    ELSE nucleus

\* _handle_initial_i_pfs
HandleInitialIPfs(nucleus) ==
    IF nucleus = <<"i">> THEN <<"y", "i">>
    ELSE IF StartsWith(nucleus, <<"i">>) THEN <<"y">> \o Tail(nucleus)
    ELSE nucleus

vowel_priority == <<"a", "o", "e", "u", "U1E73", "i">>

\* _find_pfs_tone_target without the priority order: the first vowel found.
FindPfsToneTarget_FirstVowel(nucleus) ==
    LET hit == {i \in 1..Len(nucleus) :
                   \E k \in 1..Len(vowel_priority) : nucleus[i] = vowel_priority[k]}
    IN  IF hit # {} THEN <<Min(hit) - 1, <<nucleus[Min(hit)]>>>> ELSE <<-1, <<>>>>

\* _find_pfs_tone_target: <<index, char>>, char a string of length 0 or 1
FindPfsToneTarget(nucleus) ==
    IF StartsWith(nucleus, <<"o", "a">>) THEN <<0, <<"o">>>>
    ELSE LET hit == {k \in 1..Len(vowel_priority) : Find(nucleus, vowel_priority[k]) # -1}
         IN  IF hit # {}
             THEN <<Find(nucleus, vowel_priority[Min(hit)]), <<vowel_priority[Min(hit)]>>>>
             ELSE IF nucleus = <<"m">> THEN <<0, <<"m">>>>
             ELSE IF nucleus = <<"n">> THEN <<0, <<"n">>>>
             ELSE IF nucleus = <<"n", "g">> THEN <<0, <<"n">>>>
             ELSE <<-1, <<>>>>

\* _apply_pfs_tone_mark
ApplyPfsToneMark(syllable, tone_target, tone_number) ==
    IF tone_target[1] = -1 THEN syllable
    ELSE LET tone_mark == Get(PFS_TONE_MARKS, tone_number, <<>>)
         IN  IF tone_mark = <<>> THEN syllable
             ELSE Prefix(syllable, tone_target[1]) \o tone_target[2] \o tone_mark
                  \o DropFirst(syllable, tone_target[1] + 1)

\* <<ending, nucleus>> of a rhyme (lines 599-613)
PfsEndingNucleus(rhyme) ==
    IF Len(rhyme) >= 2 /\ EndsWith(rhyme, <<"n", "n">>)
    THEN <<<<"U207F">>, Prefix(rhyme, Len(rhyme) - 2)>>
    ELSE IF Len(rhyme) >= 2 /\ EndsWith(rhyme, <<"n", "g">>)
    THEN <<<<"n", "g">>, Prefix(rhyme, Len(rhyme) - 2)>>
    ELSE IF Len(rhyme) > 0 /\ Last(rhyme) \in {"b", "d", "g", "m", "n"}
    THEN <<<<Last(rhyme)>>, Front(rhyme)>>
    ELSE <<EMPTY, rhyme>>

\* <<tone_number, pfs_initial, pfs_nucleus, pfs_ending>> of a syllable part
\* that is not a bare m, n or ng (lines 572-623).
PfsPieces(part) ==
    LET tone_number == IF IsDigit(Last(part)) THEN Last(part) ELSE "3"
        base == IF IsDigit(Last(part)) THEN Front(part) ELSE part
        ir == SplitSyllable(base)
        initial == ir[1]
        en == PfsEndingNucleus(ir[2])
        nucleus0 == ConvertPfsNucleus(en[2])
    IN  <<tone_number,
          IF initial # <<>> THEN Get(PFS_INITIAL_MAP, initial, initial) ELSE <<>>,
          IF initial = <<>> /\ StartsWith(nucleus0, <<"i">>)
          THEN HandleInitialIPfs(nucleus0) ELSE nucleus0,
          IF en[1] # <<>> THEN Get(PFS_ENDING_MAP, en[1], en[1]) ELSE <<>>>>

\* One syllable part of numbered_to_pfs (lines 570-637).
PfsSyllable(part) ==
    LET tone_number == IF IsDigit(Last(part)) THEN Last(part) ELSE "3"
        base == IF IsDigit(Last(part)) THEN Front(part) ELSE part
    IN  IF base \in {<<"m">>, <<"n">>, <<"n", "g">>}
        THEN ApplyPfsToneMark(base,
                              IF base = <<"n", "g">> THEN <<0, <<"n">>>> ELSE <<0, <<base[1]>>>>,
                              tone_number)
        ELSE LET ir == SplitSyllable(base)
                 initial == ir[1]
                 pfs_initial == IF initial # <<>> THEN Get(PFS_INITIAL_MAP, initial, initial)
                                ELSE <<>>
                 en == PfsEndingNucleus(ir[2])
                 ending == en[1]
                 nucleus0 == ConvertPfsNucleus(en[2])
                 pfs_nucleus == IF initial = <<>> /\ StartsWith(nucleus0, <<"i">>)
                                THEN HandleInitialIPfs(nucleus0) ELSE nucleus0
                 pfs_ending == IF ending # <<>> THEN Get(PFS_ENDING_MAP, ending, ending)
                               ELSE <<>>
                 pfs_base == pfs_initial \o pfs_nucleus \o pfs_ending
                 tone_target == FindPfsToneTarget(pfs_nucleus)
                 adjusted_target == <<tone_target[1] + Len(pfs_initial), tone_target[2]>>
             IN  ApplyPfsToneMark(pfs_base, adjusted_target, tone_number)

RECURSIVE PfsParts_DropsPunct(_)
\* Faulty variant of pfs_parts: punctuation is skipped like whitespace.
PfsParts_DropsPunct(parts) ==
    IF parts = <<>> THEN <<>>
    ELSE IF IsSeparator(Head(parts)) THEN PfsParts_DropsPunct(Tail(parts))
    ELSE <<<<"syllable", PfsSyllable(Head(parts))>>>> \o PfsParts_DropsPunct(Tail(parts))

RECURSIVE PfsParts(_)
\* pfs_parts: <<type, content>> for every punctuation and syllable part
PfsParts(parts) ==
    IF parts = <<>> THEN <<>>
    ELSE IF IsPunct(Head(parts)) THEN <<<<"punct", Head(parts)>>>> \o PfsParts(Tail(parts))
    ELSE IF IsWhitespace(Head(parts)) THEN PfsParts(Tail(parts))
    ELSE <<<<"syllable", PfsSyllable(Head(parts))>>>> \o PfsParts(Tail(parts))

\* result_parts with a hyphen before every syllable but the first item.
PfsJoinAt_AlwaysHyphen(pp, i) ==
    IF pp[i][1] = "syllable"
    THEN (IF i > 1 THEN <<"-">> ELSE <<>>) \o pp[i][2]
    ELSE pp[i][2] \o (IF i < Len(pp) /\ pp[i][2] # <<"U2014">> THEN <<" ">> ELSE <<>>)

\* result_parts contributed by pfs_parts[i] (lines 641-652)
PfsJoinAt(pp, i) ==
    IF pp[i][1] = "syllable"
    THEN (IF i > 1 /\ pp[i - 1][1] = "syllable" THEN <<"-">> ELSE <<>>) \o pp[i][2]
    ELSE pp[i][2] \o (IF i < Len(pp) /\ pp[i][2] # <<"U2014">> THEN <<" ">> ELSE <<>>)

\* Faulty variant of numbered_to_pfs: the dialect is not checked.
NumberedToPfs_AnyDialect(d, text) ==
    IF text = <<>> THEN <<>>
    ELSE LET pp == PfsParts(SplitParts(NormalizeDashes(text)))
         IN  NFC(Concat([i \in 1..Len(pp) |-> PfsJoinAt(pp, i)]))

\* numbered_to_pfs
NumberedToPfs(d, text) ==
    IF text = <<>> THEN <<>>
    ELSE IF d # "siyen" THEN <<>>
    ELSE LET pp == PfsParts(SplitParts(NormalizeDashes(text)))
         IN  NFC(Concat([i \in 1..Len(pp) |-> PfsJoinAt(pp, i)]))

\* -------------------------------------------------------------- IPA form

IPA_INITIAL_MAP ==
    <<"b">> :> <<"p">> @@ <<"p">> :> <<"p", "U02B0">> @@ <<"m">> :> <<"m">> @@
    <<"f">> :> <<"f">> @@ <<"v">> :> <<"v">> @@ <<"b", "b">> :> <<"b">> @@
    <<"d">> :> <<"t">> @@ <<"t">> :> <<"t", "U02B0">> @@ <<"n">> :> <<"n">> @@
    <<"l">> :> <<"l">> @@
    <<"g">> :> <<"k">> @@ <<"k">> :> <<"k", "U02B0">> @@ <<"n", "g">> :> <<"U014B">> @@
    <<"h">> :> <<"h">> @@ <<"g", "g">> :> <<"g">> @@
    <<"z">> :> <<"t", "U0361", "s">> @@ <<"c">> :> <<"t", "U0361", "s", "U02B0">> @@
    <<"s">> :> <<"s">> @@ <<"z", "z">> :> <<"z">> @@
    <<"j">> :> <<"t", "U0361", "U0255">> @@ <<"q">> :> <<"t", "U0361", "U0255", "U02B0">> @@
    <<"x">> :> <<"U0255">> @@
    <<"z", "h">> :> <<"t", "U0361", "U0283">> @@
    <<"c", "h">> :> <<"t", "U0361", "U0283", "U02B0">> @@
    <<"s", "h">> :> <<"U0283">> @@ <<"r", "h">> :> <<"U0292">>

SIYEN_TONE_VALUES ==
    "1" :> <<"U00B2", "U2074">> @@ "2" :> <<"U00B3", "U00B9">> @@
    "3" :> <<"U2075", "U2075">> @@ "4" :> <<"U00B2">> @@
    "5" :> <<"U00B9", "U00B9">> @@ "8" :> <<"U2075">>

HOILIUK_TONE_VALUES ==
    "1" :> <<"U2075", "U00B3">> @@ "2" :> <<"U00B2", "U2074">> @@
    "3" :> <<"U00B9", "U00B9">> @@ "4" :> <<"U2075">> @@
    "5" :> <<"U2075", "U2075">> @@ "7" :> <<"U00B3", "U00B3">> @@ "8" :> <<"U00B2">>

ToneValues(d) == IF d = "siyen" THEN SIYEN_TONE_VALUES ELSE HOILIUK_TONE_VALUES

RECURSIVE Nasalize(_)
\* every character of base, a combining tilde after each vowel (lines 680-686)
Nasalize(base) ==
    IF base = <<>> THEN <<>>
    ELSE <<Head(base)>>
         \o (IF Head(base) \in {"a", "e", "i", "o", "u", "U025B", "U0268", "U0254"}
             THEN <<"U0303">> ELSE <<>>)
         \o Nasalize(Tail(base))

\* Faulty variant of _convert_ipa_rhyme: checked finals lose the
\* no-audible-release mark.
ConvertIpaRhyme_PlainFinals(rhyme) ==
    IF rhyme = <<>> THEN <<>>
    ELSE LET r1 == ReplaceAll(rhyme, <<"e", "e">>, <<"U025B">>)
             r2 == ReplaceAll(r1, <<"i", "i">>, <<"U0268">>)
             r == ReplaceAll(r2, <<"o", "o">>, <<"U0254">>)
         IN  IF EndsWith(r, <<"n", "n">>) THEN Nasalize(Prefix(r, Len(r) - 2))
             ELSE IF EndsWith(r, <<"n", "g">>) THEN Prefix(r, Len(r) - 2) \o <<"U014B">>
             ELSE IF EndsWith(r, <<"b">>) THEN Front(r) \o <<"p">>
             ELSE IF EndsWith(r, <<"d">>) THEN Front(r) \o <<"t">>
             ELSE IF EndsWith(r, <<"g">>) THEN Front(r) \o <<"k">>
             ELSE r

\* _convert_ipa_rhyme
ConvertIpaRhyme(rhyme) ==
    IF rhyme = <<>> THEN <<>>
    ELSE LET r1 == ReplaceAll(rhyme, <<"e", "e">>, <<"U025B">>)
             r2 == ReplaceAll(r1, <<"i", "i">>, <<"U0268">>)
             r == ReplaceAll(r2, <<"o", "o">>, <<"U0254">>)
         IN  IF EndsWith(r, <<"n", "n">>) THEN Nasalize(Prefix(r, Len(r) - 2))
             ELSE IF EndsWith(r, <<"n", "g">>) THEN Prefix(r, Len(r) - 2) \o <<"U014B">>
             ELSE IF EndsWith(r, <<"b">>) THEN Front(r) \o <<"p", "U031A">>
             ELSE IF EndsWith(r, <<"d">>) THEN Front(r) \o <<"t", "U031A">>
             ELSE IF EndsWith(r, <<"g">>) THEN Front(r) \o <<"k", "U031A">>
             ELSE r

\* Faulty variant of _parse_numbered_syllable: only the first letter is
\* tried as the initial.
ParseNumberedSyllable_OneLetter(syllable) ==
    IF syllable = <<>> THEN <<EMPTY, EMPTY, EMPTY>>
    ELSE IF ~IsDigit(Last(syllable)) THEN <<syllable, EMPTY, EMPTY>>
    ELSE LET base == Front(syllable)
             hit == {i \in 1..Len(INITIALS) :
                        Len(INITIALS[i]) = 1 /\ StartsWith(base, INITIALS[i])}
             initial == IF hit = {} THEN EMPTY ELSE INITIALS[Min(hit)]
         IN  <<initial, DropFirst(base, Len(initial)), <<Last(syllable)>>>>

\* _parse_numbered_syllable: <<initial, rhyme, tone>>, tone a string of length 0 or 1
ParseNumberedSyllable(syllable) ==
    IF syllable = <<>> THEN <<EMPTY, EMPTY, EMPTY>>
    ELSE IF ~IsDigit(Last(syllable)) THEN <<syllable, EMPTY, EMPTY>>
    ELSE LET base == Front(syllable)
             hit == {i \in 1..Len(INITIALS) : StartsWith(base, INITIALS[i])}
             initial == IF hit = {} THEN EMPTY ELSE INITIALS[Min(hit)]
         IN  <<initial, DropFirst(base, Len(initial)), <<Last(syllable)>>>>

\* _is_syllabic_consonant
IsSyllabicConsonant(initial, rhyme) ==
    rhyme = <<>> /\ initial \in {<<"m">>, <<"n">>, <<"n", "g">>}

\* The syllables_data entry of one syllable part (lines 836-858):
\* <<ipa_initial, ipa_rhyme, tone, part>>
IpaData(part) ==
    LET prs == ParseNumberedSyllable(part)
        initial == prs[1]
        rhyme == prs[2]
        mapped == IF initial # <<>> THEN Get(IPA_INITIAL_MAP, initial, initial) ELSE <<>>
    IN  IF IsSyllabicConsonant(initial, rhyme)
        THEN IF initial = <<"m">> THEN <<EMPTY, <<"m", "U0329">>, prs[3], part>>
             ELSE IF initial = <<"n">> THEN <<EMPTY, <<"n", "U0329">>, prs[3], part>>
             ELSE <<EMPTY, <<"U014B", "U030D">>, prs[3], part>>
        ELSE <<mapped, ConvertIpaRhyme(rhyme), prs[3], part>>

\* A lookback rule that is not restricted to siyen.
SandhiLookback_AnyDialect(d, group, i) ==
    IF i > 1 /\ group[i - 1][3] \in {<<"2">>, <<"4">>}
       /\ group[i][4] = <<"e", "2">>
    THEN SIYEN_TONE_VALUES["5"]
    ELSE <<>>

\* The lookback rule of _apply_sandhi (lines 761-767); <<>> is None.
SandhiLookback(d, group, i) ==
    IF i > 1 /\ d = "siyen" /\ group[i - 1][3] \in {<<"2">>, <<"4">>}
       /\ group[i][4] = <<"e", "2">>
    THEN SIYEN_TONE_VALUES["5"]
    ELSE <<>>

\* Lookahead rules in which siyen tone 1 changes before every next tone.
SandhiLookahead_AnyNext(d, group, i) ==
    IF i < Len(group)
    THEN LET tone == group[i][3]
         IN  IF d = "siyen"
             THEN IF tone = <<"1">> THEN SIYEN_TONE_VALUES["5"] ELSE <<>>
             ELSE IF tone = <<"2">> THEN HOILIUK_TONE_VALUES["7"]
                  ELSE IF tone = <<"4">> THEN HOILIUK_TONE_VALUES["8"]
                  ELSE <<>>
    ELSE <<>>

\* The lookahead rules of _apply_sandhi (lines 769-789); <<>> is None.
SandhiLookahead(d, group, i) ==
    IF i < Len(group)
    THEN LET tone == group[i][3]
             next_tone == group[i + 1][3]
         IN  IF d = "siyen"
             THEN IF tone = <<"1">> /\ next_tone \in {<<"1">>, <<"3">>, <<"8">>}
                  THEN SIYEN_TONE_VALUES["5"] ELSE <<>>
             ELSE IF d = "hoiliuk"
             THEN IF tone = <<"2">> THEN HOILIUK_TONE_VALUES["7"]
                  ELSE IF tone = <<"4">> THEN HOILIUK_TONE_VALUES["8"]
                  ELSE <<>>
             ELSE <<>>
    ELSE <<>>

\* A loop body in which a syllable before the last one of its group looks
\* at the next tone in hoiliuk too: no substitution before tone 2 or 4.
SandhiSyllable_HoiliukByNext(d, group, i) ==
    LET tone == group[i][3]
        base_tone_value == IF tone = <<>> THEN <<>> ELSE Get(ToneValues(d), tone[1], <<>>)
        back == SandhiLookback(d, group, i)
        ahead == SandhiLookahead(d, group, i)
        sandhi_tone == IF back # <<>> THEN back
                       ELSE IF d = "hoiliuk" /\ i < Len(group)
                               /\ group[i + 1][3] \in {<<"2">>, <<"4">>}
                            THEN <<>>
                            ELSE ahead
    IN  IF sandhi_tone # <<>>
        THEN group[i][1] \o group[i][2] \o base_tone_value \o <<"U207B">> \o sandhi_tone
        ELSE group[i][1] \o group[i][2] \o base_tone_value

\* The IPA of syllable i of a group (the loop body of _apply_sandhi).
SandhiSyllable(d, group, i) ==
    LET tone == group[i][3]
        base_tone_value == IF tone = <<>> THEN <<>> ELSE Get(ToneValues(d), tone[1], <<>>)
        back == SandhiLookback(d, group, i)
        sandhi_tone == IF back # <<>> THEN back ELSE SandhiLookahead(d, group, i)
    IN  IF sandhi_tone # <<>>
        THEN group[i][1] \o group[i][2] \o base_tone_value \o <<"U207B">> \o sandhi_tone
        ELSE group[i][1] \o group[i][2] \o base_tone_value

\* _apply_sandhi
ApplySandhi(d, group) == [i \in 1..Len(group) |-> SandhiSyllable(d, group, i)]

RECURSIVE IpaScan(_, _, _)
\* The first loop of numbered_to_ipa (lines 824-862): <<syllables_data, has_punct_before>>
IpaScan(parts, data, hpb) ==
    IF parts = <<>> THEN <<data, hpb>>
    ELSE IF IsSeparator(Head(parts))
    THEN IpaScan(Tail(parts), data, IF data # <<>> THEN Append(hpb, TRUE) ELSE hpb)
    ELSE LET data2 == Append(data, IpaData(Head(parts)))
         IN  IpaScan(Tail(parts), data2,
                     IF Len(hpb) = Len(data2) THEN Append(hpb, FALSE) ELSE hpb)

RECURSIVE IpaGroups_DropsOpener(_, _, _, _, _)
\* A grouping loop that closes a group without putting the syllable that
\* follows the break into the new one.
IpaGroups_DropsOpener(data, hpb, i, groups, current_group) ==
    IF i > Len(data)
    THEN (IF current_group # <<>> THEN Append(groups, current_group) ELSE groups)
    ELSE IF i - 1 < Len(hpb) /\ hpb[i] /\ current_group # <<>>
    THEN IpaGroups_DropsOpener(data, hpb, i + 1, Append(groups, current_group), <<>>)
    ELSE IpaGroups_DropsOpener(data, hpb, i + 1, groups, Append(current_group, data[i]))

RECURSIVE IpaGroups(_, _, _, _, _)
\* The grouping loop of numbered_to_ipa (lines 866-877); i counts from 1.
IpaGroups(data, hpb, i, groups, current_group) ==
    IF i > Len(data)
    THEN (IF current_group # <<>> THEN Append(groups, current_group) ELSE groups)
    ELSE IF i - 1 < Len(hpb) /\ hpb[i] /\ current_group # <<>>
    THEN IpaGroups(data, hpb, i + 1, Append(groups, current_group), <<data[i]>>)
    ELSE IpaGroups(data, hpb, i + 1, groups, Append(current_group, data[i]))

\* The sandhi scopes numbered_to_ipa builds for a text.
SandhiGroups(text) ==
    LET sc == IpaScan(SplitParts(text), <<>>, <<FALSE>>)
    IN  IpaGroups(sc[1], sc[2], 1, <<>>, <<>>)

\* all_ipa_syllables
IpaSyllables(d, text) ==
    LET groups == SandhiGroups(text)
    IN  Concat([g \in 1..Len(groups) |-> ApplySandhi(d, groups[g])])

RECURSIVE JoinWith(_, _)
\* sep.join(items)
JoinWith(sep, items) ==
    IF items = <<>> THEN <<>>
    ELSE IF Len(items) = 1 THEN items[1]
    ELSE items[1] \o sep \o JoinWith(sep, Tail(items))

\* numbered_to_ipa
NumberedToIpa(d, text) ==
    IF text = <<>> THEN <<>>
    ELSE LET syl == IpaSyllables(d, text)
         IN  IF syl # <<>> THEN NFC(JoinWith(<<" ">>, syl)) ELSE <<>>

\* ------------------------------------------------------------- the inputs

\* Raw syllables are assembled from an initial, a nucleus, a coda and tone
\* diacritics (combining marks put after the first nucleus letter, or at the
\* end of a syllable without nucleus).
SylInitials == {<<>>, <<"p">>, <<"z">>, <<"z", "h">>, <<"s">>, <<"n", "g">>, <<"k">>}

SylNuclei == {<<>>, <<"a">>, <<"i">>, <<"i", "i">>, <<"i", "a">>, <<"u", "a">>}

SylCodas == {<<>>, <<"p">>, <<"t">>, <<"k">>, <<"n">>, <<"n", "g">>, <<"U207F">>}

SylMarks ==
    {<<>>, <<"U0301">>, <<"U0300">>, <<"U0304">>, <<"U0331">>, <<"U0323">>,
     <<"U0301", "U0323">>, <<"U0304", "U0300">>}

MakeSyllable(ini, nuc, coda, mk) ==
    IF nuc = <<>> THEN ini \o coda \o mk
    ELSE ini \o <<Head(nuc)>> \o mk \o Tail(nuc) \o coda

\* Every raw syllable has at least one letter.
RawSyllables ==
    {MakeSyllable(ini, nuc, coda, mk) :
        ini \in SylInitials, nuc \in SylNuclei, coda \in SylCodas, mk \in SylMarks}
    \ SylMarks

\* Pronunciations of several tokens are sequences of chunks.
ChunkSyllables ==
    {<<"s", "a", "U0301">>, <<"e", "U0300">>, <<"p", "a", "k">>, <<"s", "U0101">>}

ChunkSeparators == {<<" ">>, <<",">>, <<"(">>, <<")">>, <<"U2014">>, <<"-", "-">>}

Chunks == ChunkSyllables \cup ChunkSeparators

RECURSIVE ChunkTexts(_)
\* The texts of at most n chunks.
ChunkTexts(n) ==
    IF n = 0 THEN {<<>>}
    ELSE LET shorter == ChunkTexts(n - 1)
         IN  shorter \cup {t \o c : t \in shorter, c \in Chunks}

HasSyllable(text) ==
    \E i \in 1..Len(SplitParts(NormalizeDashes(text))) :
        ~IsSeparator(SplitParts(NormalizeDashes(text))[i])

\* The empty pronunciation, single syllables written with combining marks or
\* with precomposed letters, and texts that hold a syllable.
Pronunciations ==
    RawSyllables \cup {NFC(t) : t \in RawSyllables}
    \cup {t \in ChunkTexts(MaxChunks) : t = <<>> \/ HasSyllable(t)}

Dialects == {"siyen", "hoiliuk"}

\* A return value not computed yet.
NotCalled == <<"NotCalled">>

\* ------------------------------------------------------- the state machine

\* No batch is being processed.
\* A parser as HakkaParser() builds it, before parse is called.
NoParser ==
    /\ self_entries = <<>>
    /\ current_id = 1
    /\ current_pronunciation = <<>>
    /\ pending_character_entry = 0
    /\ parse_log = <<>>

NoDriver ==
    /\ from_main = FALSE
    /\ json_data = <<>>
    /\ entries = <<>>
    /\ is_wrapped = FALSE
    /\ entry_index = 0
    /\ processed_count = 0
    /\ output_file = <<>>

\* HakkaPronunciationConverter(dialect), and an original pronunciation to be
\* converted.
Init ==
    /\ dialect \in Dialects
    /\ tone_map = (IF dialect = "siyen" THEN SIYEN_TONES ELSE HOILIUK_TONES)
    /\ original \in Pronunciations
    /\ numbered = NotCalled
    /\ marked = NotCalled
    /\ pfs = NotCalled
    /\ ipa = NotCalled
    /\ pc = "original"
    /\ NoDriver
    /\ NoParser

\* numbered = converter.convert_pronunciation(original)
CallConvertPronunciation ==
    /\ pc = "original"
    /\ numbered' = ConvertPronunciation(dialect, tone_map, original)
    /\ pc' = "numbered"
    /\ UNCHANGED <<dialect, tone_map, original, marked, pfs, ipa, driver, parser>>

\* marked = converter.numbered_to_marked(numbered)
CallNumberedToMarked ==
    /\ pc = "numbered"
    /\ marked' = NumberedToMarked(dialect, numbered)
    /\ pc' = "marked"
    /\ UNCHANGED <<dialect, tone_map, original, numbered, pfs, ipa, driver, parser>>

\* pfs = converter.numbered_to_pfs(numbered)
CallNumberedToPfs ==
    /\ pc = "marked"
    /\ pfs' = NumberedToPfs(dialect, numbered)
    /\ pc' = "pfs"
    /\ UNCHANGED <<dialect, tone_map, original, numbered, marked, ipa, driver, parser>>

\* ipa = converter.numbered_to_ipa(numbered)
CallNumberedToIpa ==
    /\ pc = "pfs"
    /\ ipa' = NumberedToIpa(dialect, numbered)
    /\ pc' = "done"
    /\ UNCHANGED <<dialect, tone_map, original, numbered, marked, pfs, driver, parser>>

Next ==
    \/ CallConvertPronunciation
    \/ CallNumberedToMarked
    \/ CallNumberedToPfs
    \/ CallNumberedToIpa

Spec == Init /\ [][Next]_vars

\* ------------------------------------------------------- the batch driver

(***************************************************************************)
(* JSON values.  A key of an object holds <<v>> when it is present and     *)
(* <<>> when it is absent.  A scalar is [kind, text] with kind "string",   *)
(* "number" or "null".  The value under "pronunciation" is a record        *)
(* [kind, text, original, numbered, marked, pfs, ipa]: an object with      *)
(* these keys when kind is "object", a scalar otherwise.  An entry is a    *)
(* record [kind, text, title, pronunciation] in the same way.  The parsed  *)
(* file is [kind, has_entries, total, entries]: a bare list when kind is   *)
(* "array", an envelope when kind is "object".                             *)
(***************************************************************************)
Absent == <<>>

JsonString(s) == [kind |-> "string", text |-> s]

JsonNumber == [kind |-> "number", text |-> <<"5">>]

JsonNull == [kind |-> "null", text |-> <<>>]

JsonArray(list) ==
    [kind |-> "array", has_entries |-> FALSE, total |-> 0, entries |-> list]

PRONUNCIATION_KEY ==
    <<"p", "r", "o", "n", "u", "n", "c", "i", "a", "t", "i", "o", "n">>

ORIGINAL_KEY == <<"o", "r", "i", "g", "i", "n", "a", "l">>

\* sub in s, for two strings
Contains(s, sub) ==
    \E i \in 0..(Len(s) - Len(sub)) : SubSeq(s, i + 1, i + Len(sub)) = sub

\* key in container: a key test on an object, a substring test on a string,
\* a TypeError on a number or on null.
KeyIn(key, kind, text, has_key) ==
    CASE kind = "object" -> IF has_key THEN "True" ELSE "False"
      [] kind = "string" -> IF Contains(text, key) THEN "True" ELSE "False"
      [] OTHER -> "TypeError"

\* What the loop body does with an entry: "skip" (the condition of the if
\* is false), "convert", or the exception it raises.
EntryOutcome(entry) ==
    LET in_entry ==
            KeyIn(PRONUNCIATION_KEY, entry.kind, entry.text,
                  entry.pronunciation # Absent)
    IN  IF in_entry = "TypeError" THEN "TypeError"
        ELSE IF in_entry = "False" THEN "skip"
        ELSE IF entry.kind # "object" THEN "TypeError"
        ELSE LET pron == entry.pronunciation[1]
                 in_pron ==
                     KeyIn(ORIGINAL_KEY, pron.kind, pron.text,
                           pron.original # Absent)
             IN  IF in_pron = "TypeError" THEN "TypeError"
                 ELSE IF in_pron = "False" THEN "skip"
                 ELSE IF pron.kind # "object" THEN "TypeError"
                 ELSE IF pron.original[1].kind # "string" THEN "AttributeError"
                 ELSE "convert"

\* Faulty variant of AssignFields: the normalised original is not stored.
AssignFields_KeepsOriginal(entry, d, new_original, new_numbered, new_marked, new_pfs, new_ipa) ==
    [entry EXCEPT !.pronunciation =
        <<[entry.pronunciation[1] EXCEPT
            !.numbered = <<new_numbered>>,
            !.marked = <<new_marked>>,
            !.pfs = IF d = "siyen" /\ new_pfs # <<>> THEN <<new_pfs>> ELSE @,
            !.ipa = IF new_ipa # <<>> THEN <<new_ipa>> ELSE @]>>]

\* The entry after the assignments of the loop body to
\* entry['pronunciation'][...] (lines 932-951), given the values computed.
AssignFields(entry, d, new_original, new_numbered, new_marked, new_pfs, new_ipa) ==
    [entry EXCEPT !.pronunciation =
        <<[entry.pronunciation[1] EXCEPT
            !.original = <<JsonString(new_original)>>,
            !.numbered = <<new_numbered>>,
            !.marked = <<new_marked>>,
            !.pfs = IF d = "siyen" /\ new_pfs # <<>> THEN <<new_pfs>> ELSE @,
            !.ipa = IF new_ipa # <<>> THEN <<new_ipa>> ELSE @]>>]

\* Faulty variant of StoreEntry: the converted pronunciation is written to
\* every entry of the list that has one.
StoreEntry_Shared(list, i, entry) ==
    [j \in DOMAIN list |->
        IF j = i THEN entry
        ELSE IF EntryOutcome(list[j]) = "convert"
             THEN [list[j] EXCEPT !.pronunciation = entry.pronunciation]
             ELSE list[j]]

\* The assignments go to the entry the loop variable refers to, the i-th
\* element of the list.
StoreEntry(list, i, entry) == [list EXCEPT ![i] = entry]

\* Faulty variant of OutputData: the envelope is dropped.
OutputData_BareList(wrapped, input, list) == JsonArray(list)

\* output_data: the envelope with its entries, or the bare list.
OutputData(wrapped, input, list) ==
    IF wrapped THEN [input EXCEPT !.entries = list] ELSE JsonArray(list)

\* Faulty variant of ValidDialect: every selector is accepted.
ValidDialect_Any(d) == TRUE

\* dialect in ['siyen', 'hoiliuk']
ValidDialect(d) == d \in Dialects

\* str.lower() of the command-line selectors
Lower(selector) == IF selector = "SIYEN" THEN "siyen" ELSE selector

\* Longest list of entries in an input file.
MaxEntries == 2

Selectors == {"siyen", "hoiliuk", "SIYEN", "sixian"}

PronObject(orig) ==
    [kind |-> "object", text |-> <<>>, original |-> orig, numbered |-> Absent,
     marked |-> Absent, pfs |-> Absent, ipa |-> Absent]

PronScalar(kind, text) ==
    [kind |-> kind, text |-> text, original |-> Absent, numbered |-> Absent,
     marked |-> Absent, pfs |-> Absent, ipa |-> Absent]

EntryWith(pron) ==
    [kind |-> "object", text |-> <<>>, title |-> <<"x">>, pronunciation |-> <<pron>>]

EntryScalar(kind, text) ==
    [kind |-> kind, text |-> text, title |-> <<>>, pronunciation |-> Absent]

BatchOriginals ==
    {<<"p", "a", "k">>, <<"s", "a", "U0301", "-", "-", "p", "a", "k">>, <<>>}

\* Entries of the documented shape: without pronunciation, without original,
\* with an original, and one that a siyen run has already converted.
ExpectedEntries ==
    {[kind |-> "object", text |-> <<>>, title |-> <<"x">>, pronunciation |-> Absent],
     EntryWith(PronObject(Absent))}
    \cup {EntryWith(PronObject(<<JsonString(o)>>)) : o \in BatchOriginals}
    \cup {AssignFields(EntryWith(PronObject(<<JsonString(<<"p", "a", "k">>)>>)),
                        "siyen", <<"p", "a", "k">>, <<"p", "a", "g", "8">>,
                        <<"p", "a", "g">>, <<"p", "h", "a", "U030D", "k">>,
                        <<"p", "U02B0", "a", "k", "U031A", "U2075">>)}

\* Entries of another shape: 5, "pronunciation", "x", {"pronunciation": null},
\* {"pronunciation": "original"}, {"pronunciation": {"original": 5}}.
UnexpectedEntries ==
    {EntryScalar("number", <<"5">>),
     EntryScalar("string", PRONUNCIATION_KEY),
     EntryScalar("string", <<"x">>),
     EntryWith(PronScalar("null", <<>>)),
     EntryWith(PronScalar("string", ORIGINAL_KEY)),
     EntryWith(PronObject(<<JsonNumber>>))}

RECURSIVE EntryLists(_)
\* The lists of at most n entries.
EntryLists(n) ==
    IF n = 0 THEN {<<>>}
    ELSE LET shorter == EntryLists(n - 1)
         IN  shorter \cup {Append(l, e) : l \in shorter,
                                          e \in ExpectedEntries \cup UnexpectedEntries}

\* A bare list, an envelope, an object without "entries", a string.
JsonInputs ==
    {JsonArray(l) : l \in EntryLists(MaxEntries)}
    \cup {[kind |-> "object", has_entries |-> TRUE, total |-> Len(l), entries |-> l] :
            l \in EntryLists(MaxEntries)}
    \cup {[kind |-> "object", has_entries |-> FALSE, total |-> 0, entries |-> <<>>],
          [kind |-> "string", has_entries |-> FALSE, total |-> 0, entries |-> <<>>]}

\* main() is started with a selector on the command line, or
\* process_json_file(input_file, output_file, dialect) is called directly.
BatchInit ==
    /\ from_main \in BOOLEAN
    /\ dialect \in Selectors
    /\ tone_map = <<>>
    /\ json_data \in JsonInputs
    /\ entries = <<>>
    /\ is_wrapped = FALSE
    /\ entry_index = 0
    /\ processed_count = 0
    /\ output_file = Absent
    /\ original = NotCalled
    /\ numbered = NotCalled
    /\ marked = NotCalled
    /\ pfs = NotCalled
    /\ ipa = NotCalled
    /\ pc = IF from_main THEN "main" ELSE "process_json_file"
    /\ NoParser

\* main: the selector is lower-cased and checked, then process_json_file is
\* called.
Main ==
    /\ pc = "main"
    /\ dialect' = Lower(dialect)
    /\ pc' = IF ValidDialect(dialect') THEN "process_json_file" ELSE "exit"
    /\ UNCHANGED <<tone_map, original, numbered, marked, pfs, ipa, driver, parser>>

\* process_json_file: the file is read and its shape recognised; another
\* shape prints an error and returns.
ReadInput ==
    /\ pc = "process_json_file"
    /\ IF json_data.kind = "object" /\ json_data.has_entries
       THEN entries' = json_data.entries /\ is_wrapped' = TRUE /\ pc' = "converter"
       ELSE IF json_data.kind = "array"
       THEN entries' = json_data.entries /\ is_wrapped' = FALSE /\ pc' = "converter"
       ELSE pc' = "returned" /\ UNCHANGED <<entries, is_wrapped>>
    /\ UNCHANGED <<dialect, tone_map, original, numbered, marked, pfs, ipa,
                   from_main, json_data, entry_index, processed_count, output_file>>
    /\ UNCHANGED parser

\* converter = HakkaPronunciationConverter(dialect); processed_count = 0
NewConverter ==
    /\ pc = "converter"
    /\ IF ~ValidDialect(dialect)
       THEN pc' = "raised" /\ UNCHANGED <<tone_map, entry_index, processed_count>>
       ELSE /\ tone_map' = (IF dialect = "siyen" THEN SIYEN_TONES ELSE HOILIUK_TONES)
            /\ processed_count' = 0
            /\ entry_index' = 1
            /\ pc' = "loop"
    /\ UNCHANGED <<dialect, original, numbered, marked, pfs, ipa,
                   from_main, json_data, entries, is_wrapped, output_file>>
    /\ UNCHANGED parser

\* One iteration of "for entry in entries": the entry is skipped, or an
\* exception ends the loop, or the forms are computed one from the other and
\* stored in the entry.
ProcessEntry ==
    /\ pc = "loop"
    /\ entry_index <= Len(entries)
    /\ LET entry == entries[entry_index]
           outcome == EntryOutcome(entry)
       IN  IF outcome = "convert"
           THEN /\ original' = ReplaceAll(entry.pronunciation[1].original[1].text,
                                          <<"-", "-">>, <<"U2014">>)
                /\ numbered' = ConvertPronunciation(dialect, tone_map, original')
                /\ marked' = NumberedToMarked(dialect, numbered')
                /\ pfs' = (IF dialect = "siyen" THEN NumberedToPfs(dialect, numbered')
                           ELSE pfs)
                /\ ipa' = NumberedToIpa(dialect, numbered')
                /\ entries' = StoreEntry(entries, entry_index,
                                  AssignFields(entry, dialect, original', numbered',
                                               marked', pfs', ipa'))
                /\ processed_count' = processed_count + 1
                /\ entry_index' = entry_index + 1
                /\ pc' = "loop"
           ELSE IF outcome = "skip"
           THEN /\ entry_index' = entry_index + 1
                /\ UNCHANGED <<entries, original, numbered, marked, pfs, ipa,
                               processed_count, pc>>
           ELSE /\ pc' = "raised"
                /\ UNCHANGED <<entries, original, numbered, marked, pfs, ipa,
                               processed_count, entry_index>>
    /\ UNCHANGED <<dialect, tone_map, from_main, json_data, is_wrapped, output_file>>
    /\ UNCHANGED parser

\* The loop body (lines 927-951) as a function of the entry: what one run
\* with dialect d leaves in the place of the entry; exceptions aside.
RunEntry(d, tmap, entry) ==
    IF EntryOutcome(entry) # "convert" THEN entry
    ELSE LET new_original == ReplaceAll(entry.pronunciation[1].original[1].text,
                                        <<"-", "-">>, <<"U2014">>)
             new_numbered == ConvertPronunciation(d, tmap, new_original)
         IN  AssignFields(entry, d, new_original, new_numbered,
                          NumberedToMarked(d, new_numbered),
                          IF d = "siyen" THEN NumberedToPfs(d, new_numbered) ELSE <<>>,
                          NumberedToIpa(d, new_numbered))

\* After the loop: json.dump(output_data, f)
WriteOutput ==
    /\ pc = "loop"
    /\ entry_index > Len(entries)
    /\ output_file' = <<OutputData(is_wrapped, json_data, entries)>>
    /\ pc' = "returned"
    /\ UNCHANGED <<dialect, tone_map, original, numbered, marked, pfs, ipa,
                   from_main, json_data, entries, is_wrapped, entry_index,
                   processed_count>>
    /\ UNCHANGED parser

\* main: an exception of process_json_file is printed and the program exits
\* with status 1.
MainExcept ==
    /\ pc = "raised"
    /\ from_main
    /\ pc' = "exit"
    /\ UNCHANGED <<dialect, tone_map, original, numbered, marked, pfs, ipa, driver, parser>>

BatchNext ==
    \/ Main
    \/ ReadInput
    \/ NewConverter
    \/ ProcessEntry
    \/ WriteOutput
    \/ MainExcept

BatchSpec == BatchInit /\ [][BatchNext]_vars

\* ------------------------------------------------------------ properties

\* The tokens of the input (after the double hyphen is rewritten) and of
\* the rendered forms.
OrigParts == SplitParts(NormalizeDashes(original))

NumParts == SplitParts(numbered)

MarkedParts == SplitParts(marked)

SyllableIndexes(parts) == {i \in 1..Len(parts) : ~IsSeparator(parts[i])}

\* The selected diacritic class of a raw syllable.
ToneClassOf(syllable) == NormalizeAndExtractTone(syllable)[2]

ToneInventory(d) ==
    IF d = "siyen" THEN {"1", "2", "3", "4", "5", "8"}
    ELSE {"1", "2", "3", "4", "5", "7", "8"}

\* C1: in both dialects every converted syllable ends in a digit of the
\* dialect's tone inventory or in the literal "?".
C1_ToneInInventory ==
    pc # "original" =>
        LET np == NumParts
        IN  \A i \in SyllableIndexes(np) :
                Last(np[i]) \in ToneInventory(dialect) \cup {"?"}

C1_Witness ==
    /\ pc = "done"
    /\ dialect = "siyen"
    /\ original = <<"s", "a", "U0304">>
    /\ numbered = <<"s", "a", "?">>

\* C2: a syllable whose rhyme (after the longest matching initial, before
\* conversion) ends in p, t or k has a numbered rhyme ending in b, d or g
\* respectively, and its tone is resolved as for a checked-final syllable:
\* the plain-checked tone without a diacritic, the dot-below tone with one.
C2_CheckedFinal ==
    pc # "original" =>
        LET op == OrigParts
            np == NumParts
        IN  /\ Len(np) = Len(op)
            /\ \A i \in SyllableIndexes(op) :
                   LET bt == NormalizeAndExtractTone(op[i])
                       rhyme == SplitSyllable(bt[1])[2]
                       n == np[i]
                   IN  (rhyme # <<>> /\ Last(rhyme) \in {"p", "t", "k"}) =>
                           /\ Len(n) >= 2
                           /\ Last(rhyme) = "p" => n[Len(n) - 1] = "b"
                           /\ Last(rhyme) = "t" => n[Len(n) - 1] = "d"
                           /\ Last(rhyme) = "k" => n[Len(n) - 1] = "g"
                           /\ bt[2] = "None" =>
                                  Last(n) = (IF dialect = "siyen" THEN "8" ELSE "4")
                           /\ bt[2] = "dot_below" =>
                                  Last(n) = (IF dialect = "siyen" THEN "4" ELSE "8")

C2_Witness ==
    /\ pc = "done"
    /\ dialect = "hoiliuk"
    /\ original = <<"z", "h", "i", "U0323", "t">>
    /\ numbered = <<"z", "h", "i", "d", "8">>

\* Numbered syllables put in the place of a syllable to vary its neighbour.
VariantSyllables == {<<"e", "2">>, <<"s", "a", "1">>, <<"p", "a", "g", "8">>, <<"k", "u", "5">>}

\* The rendering of the n-th syllable in an IPA text (renderings are joined by one space).
RenderedSyllable(text, n) ==
    LET pieces == SplitParts(text)
        idx == {i \in 1..Len(pieces) : ~IsSeparator(pieces[i])}
        at == {i \in idx : Cardinality({j \in idx : j <= i}) = n}
    IN  IF at = {} THEN <<>> ELSE pieces[CHOOSE i \in at : TRUE]

\* How many syllable parts there are up to part i.
SyllableRank(parts, i) == Cardinality({j \in SyllableIndexes(parts) : j <= i})

\* Some part strictly between parts i and j is a punctuation token.
PunctBetween(parts, i, j) ==
    \E k \in 1..Len(parts) :
        /\ IsPunct(parts[k])
        /\ (i < k /\ k < j) \/ (j < k /\ k < i)

ReplacePart(parts, j, r) == [k \in 1..Len(parts) |-> IF k = j THEN r ELSE parts[k]]

\* C3: sandhi locality.  The IPA rendering of a syllable is unchanged when a
\* syllable separated from it by a punctuation token is replaced by another.
C3_SandhiLocality ==
    pc = "done" =>
        LET np == NumParts
        IN  \A i \in SyllableIndexes(np), j \in SyllableIndexes(np) :
                PunctBetween(np, i, j) =>
                    \A r \in VariantSyllables :
                        RenderedSyllable(
                            NumberedToIpa(dialect, Concat(ReplacePart(np, j, r))),
                            SyllableRank(np, i))
                        = RenderedSyllable(ipa, SyllableRank(np, i))

\* A text with its syllables blanked: the separators and where they stand.
Skeleton(text) ==
    LET parts == SplitParts(text)
    IN  [i \in 1..Len(parts) |-> IF IsSeparator(parts[i]) THEN parts[i] ELSE <<"syllable">>]

RECURSIVE PunctuationOf(_)
\* The punctuation characters of a text, in order.
PunctuationOf(text) ==
    IF text = <<>> THEN <<>>
    ELSE (IF Head(text) \in PUNCTUATION THEN <<Head(text)>> ELSE <<>>)
         \o PunctuationOf(Tail(text))

StripGlyph(syllable, glyph) ==
    IF EndsWith(syllable, glyph) THEN Prefix(syllable, Len(syllable) - Len(glyph))
    ELSE syllable

\* C5 as stated: for every syllable, the marked syllable without the glyph
\* of its tone character is the numbered syllable without its last character.
C5_MarkedRoundTrip ==
    pc = "done" =>
        LET np == NumParts
            mp == MarkedParts
        IN  /\ Len(mp) = Len(np)
            /\ \A i \in SyllableIndexes(np) :
                   StripGlyph(mp[i], Get(ToneMarks(dialect), Last(np[i]), <<>>))
                   = Front(np[i])

\* C5 amended: the round trip holds for every syllable whose tone character
\* is a digit; a syllable whose tone character is "?" is the same in the
\* marked form as in the numbered form.
C5_MarkedRoundTripDigits ==
    pc = "done" =>
        LET np == NumParts
            mp == MarkedParts
        IN  /\ Len(mp) = Len(np)
            /\ \A i \in SyllableIndexes(np) :
                   IF IsDigit(Last(np[i]))
                   THEN StripGlyph(mp[i], ToneMarks(dialect)[Last(np[i])]) = Front(np[i])
                   ELSE Last(np[i]) = "?" /\ mp[i] = np[i]

C5_Witness ==
    /\ pc = "done"
    /\ dialect = "hoiliuk"
    /\ original = <<"s", "U0101", " ", "e", "U0300">>
    /\ numbered = <<"s", "a", "7", " ", "e", "1">>
    /\ marked = <<"s", "a", "+", " ", "e", "U02CB">>

\* C6: a hoiliuk converter's numbered_to_pfs returns the empty string.
C6_HoiliukPfsEmpty ==
    (dialect = "hoiliuk" /\ pc \in {"pfs", "done"}) => pfs = <<>>

C6_Witness ==
    /\ pc = "pfs"
    /\ dialect = "hoiliuk"
    /\ numbered = <<"p", "a", "g", "4", " ", "s", "a", "2">>
    /\ pfs = <<>>

C8_PlainTones ==
    pc # "original" =>
        LET op == OrigParts
            np == NumParts
        IN  /\ Len(np) = Len(op)
            /\ \A i \in SyllableIndexes(op) :
                   LET text == NFD(op[i])
                   IN  (\A k \in 1..Len(text) :
                            text[k] \notin {"U0301", "U0300", "U0304", "U0331", "U0323"})
                       => Last(np[i]) =
                              (IF Last(text) \in {"p", "t", "k"}
                               THEN (IF dialect = "siyen" THEN "8" ELSE "4")
                               ELSE (IF dialect = "siyen" THEN "3" ELSE "5"))
            /\ (dialect = "hoiliuk" /\ original = <<"p", "a", "k">>) =>
                   numbered = <<"p", "a", "g", "4">>

C8_Witness ==
    /\ pc = "done"
    /\ dialect = "hoiliuk"
    /\ original = <<"p", "a", "k">>
    /\ numbered = <<"p", "a", "g", "4">>

\* C9: a converted syllable ends in "?" exactly when the dialect is siyen
\* and the selected diacritic class is macron (the one class the siyen table
\* lacks), never in hoiliuk; the other tokens are converted all the same.
C9_QuestionMark ==
    pc # "original" =>
        LET op == OrigParts
            np == NumParts
        IN  /\ Len(np) = Len(op)
            /\ \A i \in SyllableIndexes(op) :
                   /\ Last(np[i]) = "?"
                          <=> (dialect = "siyen" /\ ToneClassOf(op[i]) = "macron")
                   /\ Last(np[i]) \in ToneInventory(dialect) \cup {"?"}
            /\ dialect = "hoiliuk" => \A k \in 1..Len(numbered) : numbered[k] # "?"

C9_Witness ==
    /\ pc = "done"
    /\ dialect = "siyen"
    /\ original = <<"s", "U0101", " ", "e", "U0300">>
    /\ numbered = <<"s", "a", "?", " ", "e", "2">>

\* C10: the parts convert_pronunciation cuts the input into (after the
\* double hyphen is rewritten) are whitespace runs, punctuation runs and
\* syllables whose concatenation is that input, and the output is the same
\* sequence with every separator run verbatim and every syllable converted.
C10_TokensReconstruct ==
    pc # "original" =>
        LET op == OrigParts
            np == NumParts
        IN  /\ Concat(op) = NormalizeDashes(original)
            /\ \A i \in 1..Len(op) :
                   \/ IsWhitespace(op[i])
                   \/ IsPunct(op[i])
                   \/ \A k \in 1..Len(op[i]) : op[i][k] \notin WHITESPACE \cup PUNCTUATION
            /\ Len(np) = Len(op)
            /\ \A i \in 1..Len(op) :
                   IF IsSeparator(op[i]) THEN np[i] = op[i]
                   ELSE /\ ~IsSeparator(np[i])
                        /\ np[i] = ConvertSyllable(dialect, tone_map, op[i])
            /\ numbered = Concat(np)

C10_Witness ==
    /\ pc = "done"
    /\ dialect = "siyen"
    /\ original = <<"s", "a", "U0301", "-", "-", "e", "U0300">>
    /\ numbered = <<"s", "a", "1", "U2014", "e", "2">>

\* ------------------------------------------------ properties of the driver

\* The entry has a pronunciation.original field.
HasOriginal(entry) ==
    /\ entry.kind = "object"
    /\ entry.pronunciation # Absent
    /\ entry.pronunciation[1].kind = "object"
    /\ entry.pronunciation[1].original # Absent

\* C11: process_json_file keeps the shape of the input (a bare list stays a
\* list, an envelope stays an envelope with its total) and the order and
\* number of the entries; an entry without pronunciation.original is left
\* as it was, and an entry that was changed had that field, keeps its other
\* fields and has gained numbered and marked.
C11_ShapeAndFrame ==
    LET input == json_data.entries
    IN  /\ \A j \in 1..Len(entries) :
            /\ ~HasOriginal(input[j]) => entries[j] = input[j]
            /\ entries[j] # input[j] =>
                /\ HasOriginal(input[j])
                /\ entries[j].kind = "object"
                /\ entries[j].title = input[j].title
                /\ entries[j].pronunciation[1].kind = "object"
                /\ entries[j].pronunciation[1].original =
                     <<JsonString(ReplaceAll(input[j].pronunciation[1].original[1].text,
                                             <<"-", "-">>, <<"U2014">>))>>
                /\ entries[j].pronunciation[1].numbered # Absent
                /\ entries[j].pronunciation[1].marked # Absent
        /\ output_file # Absent =>
            /\ output_file[1].kind = json_data.kind
            /\ output_file[1].has_entries = json_data.has_entries
            /\ output_file[1].total = json_data.total
            /\ output_file[1].entries = entries
            /\ Len(entries) = Len(input)

\* An envelope of two entries is written: the first has no pronunciation and
\* is unchanged, the second had the original "pak" and has been converted.
C11_Witness ==
    /\ output_file # Absent
    /\ output_file[1].kind = "object"
    /\ Len(entries) = 2
    /\ json_data.entries[1].pronunciation = Absent
    /\ json_data.entries[1].kind = "object"
    /\ entries[1] = json_data.entries[1]
    /\ json_data.entries[2] = EntryWith(PronObject(<<JsonString(<<"p", "a", "k">>)>>))
    /\ entries[2].pronunciation[1].numbered # Absent
    /\ entries[2].pronunciation[1].ipa # Absent

\* The entry has a pronunciation.original field that is a string.
HasStringOriginal(entry) ==
    HasOriginal(entry) /\ entry.pronunciation[1].original[1].kind = "string"

\* C12: an entry of an unexpected shape does not abort the batch.  Once the
\* loop has started no exception ends the run, and when process_json_file
\* has returned the output is written, every entry with a string original
\* is converted and processed_count counts exactly those entries.
C12_CorruptEntrySkipped ==
    entry_index >= 1 =>
        /\ pc \notin {"raised", "exit"}
        /\ pc = "returned" =>
            /\ output_file # Absent
            /\ \A j \in 1..Len(entries) :
                  HasStringOriginal(json_data.entries[j]) =>
                      entries[j].pronunciation[1].numbered # Absent
            /\ processed_count =
                 Cardinality({j \in 1..Len(entries) :
                                HasStringOriginal(json_data.entries[j])})

C14_OptionalFields ==
    pc = "returned" /\ output_file # Absent =>
        \A j \in 1..Len(entries) :
            HasStringOriginal(json_data.entries[j]) =>
                LET pron == output_file[1].entries[j].pronunciation[1]
                IN  /\ pron.pfs # Absent =>
                        /\ dialect = "siyen"
                        /\ NumberedToPfs(dialect, pron.numbered[1]) # <<>>
                        /\ pron.pfs[1] # <<>>
                    /\ pron.ipa # Absent =>
                        /\ NumberedToIpa(dialect, pron.numbered[1]) # <<>>
                        /\ pron.ipa[1] # <<>>

\* C15: entry independence.  While the entries are processed the converter
\* keeps its dialect and tone map, and the numbered, marked, pfs and ipa
\* values stored for a processed entry are those a new converter of the
\* dialect computes from that entry's original alone, whatever the other
\* entries are and however many were converted before.
C15_EntryIndependence ==
    entry_index >= 1 =>
        /\ dialect \in Dialects
        /\ tone_map = (IF dialect = "siyen" THEN SIYEN_TONES ELSE HOILIUK_TONES)
        /\ \A j \in 1..Min({entry_index - 1, Len(entries)}) :
              HasStringOriginal(json_data.entries[j]) =>
                  LET text == json_data.entries[j].pronunciation[1].original[1].text
                      pron == entries[j].pronunciation[1]
                      alone_numbered ==
                          ConvertPronunciation(dialect,
                              IF dialect = "siyen" THEN SIYEN_TONES ELSE HOILIUK_TONES,
                              text)
                      alone_pfs == NumberedToPfs(dialect, alone_numbered)
                      alone_ipa == NumberedToIpa(dialect, alone_numbered)
                  IN  /\ pron.numbered = <<alone_numbered>>
                      /\ pron.marked = <<NumberedToMarked(dialect, alone_numbered)>>
                      /\ alone_pfs # <<>> => pron.pfs = <<alone_pfs>>
                      /\ alone_ipa # <<>> => pron.ipa = <<alone_ipa>>

\* Two entries with different originals have both been converted, the
\* second after the first.
C15_Witness ==
    /\ pc = "returned"
    /\ processed_count = 2
    /\ dialect = "siyen"
    /\ json_data.entries[1] = EntryWith(PronObject(<<JsonString(<<"p", "a", "k">>)>>))
    /\ HasStringOriginal(json_data.entries[2])
    /\ json_data.entries[2].pronunciation[1].original[1].text
         = <<"s", "a", "U0301", "-", "-", "p", "a", "k">>
    /\ entries[2].pronunciation[1].pfs # Absent
    /\ entries[2].pronunciation[1].numbered # entries[1].pronunciation[1].numbered

\* ------------------------------------------------ phrases of syllables

\* Most syllables in a phrase.
MaxSyllables == 3

\* Syllables of the tone classes the sandhi rules of a dialect look at.
\* siyen: sá (1), sa (3), pak (8), è (the suffix e2), sa with dot below (4),
\* sa with macron below (5); hoiliuk: sá (2), sà (1), sa (5), pak (4), é (e2).
PhraseSyllables(d) ==
    IF d = "siyen"
    THEN {<<"s", "a", "U0301">>, <<"s", "a">>, <<"p", "a", "k">>, <<"e", "U0300">>,
          <<"s", "a", "U0323">>, <<"s", "a", "U0331">>}
    ELSE {<<"s", "a", "U0301">>, <<"s", "a", "U0300">>, <<"s", "a">>,
          <<"p", "a", "k">>, <<"e", "U0301">>}

PhraseSeparators == {<<" ">>, <<",">>}

RECURSIVE Phrases(_, _)
\* Syllables with one separator between neighbours, at most n syllables.
Phrases(d, n) ==
    IF n = 1 THEN PhraseSyllables(d)
    ELSE LET shorter == Phrases(d, n - 1)
         IN  shorter \cup {t \o sep \o syl : t \in shorter, sep \in PhraseSeparators,
                                            syl \in PhraseSyllables(d)}

\* A phrase may start with punctuation.
PhraseLeads == {<<>>, <<",">>}

\* A converter and a phrase to be converted.
PhraseInit ==
    /\ dialect \in Dialects
    /\ tone_map = (IF dialect = "siyen" THEN SIYEN_TONES ELSE HOILIUK_TONES)
    /\ original \in {lead \o t : lead \in PhraseLeads, t \in Phrases(dialect, MaxSyllables)}
    /\ numbered = NotCalled
    /\ marked = NotCalled
    /\ pfs = NotCalled
    /\ ipa = NotCalled
    /\ pc = "original"
    /\ NoDriver
    /\ NoParser

PhraseSpec == PhraseInit /\ [][Next]_vars

\* The sandhi scope (index into the groups) that holds the n-th syllable.
ScopeOf(groups, n) ==
    Min({g \in 1..Len(groups) :
            n <= Len(Concat([h \in 1..g |-> groups[h]]))})

\* C16: a sandhi scope is opened only at a punctuation break.  Two syllables
\* with only whitespace between them are in the same scope, and the earlier
\* one (unless it is the suffix e2, which has a rule of its own) is rendered
\* by the lookahead rules with the later one as its next syllable.
C16_WhitespaceKeepsScope ==
    pc = "done" =>
        LET np == NumParts
            groups == SandhiGroups(numbered)
        IN  \A i \in SyllableIndexes(np) :
                (i + 2 <= Len(np) /\ IsWhitespace(np[i + 1])) =>
                    /\ ScopeOf(groups, SyllableRank(np, i))
                         = ScopeOf(groups, SyllableRank(np, i + 2))
                    /\ np[i] # <<"e", "2">> =>
                         RenderedSyllable(ipa, SyllableRank(np, i))
                         = NFC(SandhiSyllable(dialect,
                                   <<IpaData(np[i]), IpaData(np[i + 2])>>, 1))

\* ------------------------------------------- properties of the decomposer

\* The rhyme left after the initial is split off the decomposed base text.
RhymeOf(syllable) == SplitSyllable(NormalizeAndExtractTone(syllable)[1])[2]

\* C17: a syllable is treated as checked-final exactly when its rhyme before
\* conversion ends in p, t or k: without a diacritic it gets the
\* plain-checked tone in that case and the plain tone in every other case,
\* in particular when the rhyme is empty.
C17_CheckedIffRhyme ==
    pc # "original" =>
        LET op == OrigParts
            np == NumParts
        IN  \A i \in SyllableIndexes(op) :
                LET rhyme == RhymeOf(op[i])
                    rhyme_checked == rhyme # <<>> /\ Last(rhyme) \in CHECKED_FINALS
                IN  /\ HasCheckedFinal(NormalizeAndExtractTone(op[i])[1]) <=> rhyme_checked
                    /\ ToneClassOf(op[i]) = "None" =>
                         Last(np[i]) = (IF rhyme_checked THEN tone_map["none_checked"]
                                        ELSE tone_map["none"])

\* The class the priority macron-below, dot-below, macron, acute, grave
\* selects among the combining marks of a text.
SelectedClass(text) ==
    LET normalized == NFD(text)
        has(c) == \E k \in 1..Len(normalized) : normalized[k] = c
    IN  IF has("U0331") THEN "macron_below"
        ELSE IF has("U0323") THEN "dot_below"
        ELSE IF has("U0304") THEN "macron"
        ELSE IF has("U0301") THEN "acute"
        ELSE IF has("U0300") THEN "grave"
        ELSE "None"

\* The texts obtained by exchanging two neighbouring combining marks.
SwapMarks(text) ==
    {[text EXCEPT ![k] = text[k + 1], ![k + 1] = text[k]] :
        k \in {n \in 1..(Len(text) - 1) :
                 text[n] \in DOMAIN DIACRITICS /\ text[n + 1] \in DOMAIN DIACRITICS}}

\* C18: of the diacritic classes on a syllable exactly one is selected, the
\* first present in the order macron-below, dot-below, macron, acute,
\* grave, whatever the order of the marks in the text, and none when no
\* mark of the five is present; the tone of the numbered form is the one of
\* the selected class.
C18_TonePriority ==
    pc # "original" =>
        LET op == OrigParts
            np == NumParts
        IN  \A i \in SyllableIndexes(op) :
                /\ ToneClassOf(op[i]) = SelectedClass(op[i])
                /\ \A swapped \in SwapMarks(op[i]) :
                      /\ ToneClassOf(swapped) = ToneClassOf(op[i])
                      /\ ConvertSyllable(dialect, tone_map, swapped) = np[i]
                /\ Last(np[i]) =
                     ResolveTone(tone_map, SelectedClass(op[i]),
                                 HasCheckedFinal(NormalizeAndExtractTone(op[i])[1]))

\* "sa" with an acute and then a dot below has been converted: dot-below is
\* selected, the siyen tone is 4.
C18_Witness ==
    /\ pc = "done"
    /\ dialect = "siyen"
    /\ original = <<"s", "a", "U0301", "U0323">>
    /\ ToneClassOf(original) = "dot_below"
    /\ numbered = <<"s", "a", "4">>

\* C19: the initial is changed in siyen only: z, c, s become j, q, x exactly
\* when the rhyme begins with "i" and not with "ii"; every other initial, and
\* every initial in hoiliuk, is left as it is.  The numbered form begins with
\* that initial.
C19_InitialMutation ==
    pc # "original" =>
        LET op == OrigParts
            np == NumParts
        IN  \A i \in SyllableIndexes(op) :
                LET split == SplitSyllable(NormalizeAndExtractTone(op[i])[1])
                    rhyme == split[2]
                    single_i ==
                        /\ rhyme # <<>>
                        /\ rhyme[1] = "i"
                        /\ ~(Len(rhyme) >= 2 /\ rhyme[2] = "i")
                    expected(ini) ==
                        IF dialect = "siyen" /\ single_i
                        THEN CASE ini = <<"z">> -> <<"j">>
                               [] ini = <<"c">> -> <<"q">>
                               [] ini = <<"s">> -> <<"x">>
                               [] OTHER -> ini
                        ELSE ini
                IN  /\ np[i] = expected(split[1]) \o ConvertFinal(rhyme) \o <<Last(np[i])>>
                    /\ \A k \in 1..Len(INITIALS) :
                          ConvertInitial(dialect, INITIALS[k], rhyme)
                            = expected(INITIALS[k])

\* In siyen "sia" with an acute has become "xia1".
C19_Witness ==
    /\ pc = "done"
    /\ dialect = "siyen"
    /\ original = <<"s", "i", "U0301", "a">>
    /\ numbered = <<"x", "i", "a", "1">>

\* What convert_syllable concatenates for a raw syllable:
\* <<converted_initial, converted_rhyme, tone>>.
Decomposition(d, tmap, syllable) ==
    LET bt == NormalizeAndExtractTone(syllable)
        split == SplitSyllable(bt[1])
    IN  <<ConvertInitial(d, split[1], split[2]),
          ConvertFinal(split[2]),
          <<ResolveTone(tmap, bt[2], HasCheckedFinal(bt[1]))>>>>

\* C20 as stated: for every syllable token, _parse_numbered_syllable and the
\* split of numbered_to_pfs give back the initial, the rhyme and the tone
\* that were concatenated into the numbered form.
C20_HubFormAlways ==
    pc # "original" =>
        LET op == OrigParts
            np == NumParts
        IN  \A i \in SyllableIndexes(op) :
                LET dec == Decomposition(dialect, tone_map, op[i])
                IN  /\ np[i] = dec[1] \o dec[2] \o dec[3]
                    /\ ParseNumberedSyllable(np[i]) = dec
                    /\ SplitSyllable(Front(np[i])) = <<dec[1], dec[2]>>

\* C20, amended: the same holds for every syllable token whose tone is a
\* digit (not the placeholder "?") and whose rhyme is empty or begins with a
\* vowel.
C20_HubFormParsesBack ==
    pc # "original" =>
        LET op == OrigParts
            np == NumParts
        IN  \A i \in SyllableIndexes(op) :
                LET dec == Decomposition(dialect, tone_map, op[i])
                    rhyme == RhymeOf(op[i])
                IN  /\ np[i] = dec[1] \o dec[2] \o dec[3]
                    /\ (/\ IsDigit(dec[3][1])
                        /\ rhyme = <<>> \/ rhyme[1] \in {"a", "e", "i", "o", "u"})
                       => /\ ParseNumberedSyllable(np[i]) = dec
                          /\ SplitSyllable(Front(np[i])) = <<dec[1], dec[2]>>

\* "zhiak" with a grave has become "zhiag2" in siyen, which is parsed back
\* into zh, iag and 2.
C20_Witness ==
    /\ pc = "done"
    /\ dialect = "siyen"
    /\ original = <<"z", "h", "i", "U0300", "a", "k">>
    /\ numbered = <<"z", "h", "i", "a", "g", "2">>
    /\ ParseNumberedSyllable(numbered) = <<<<"z", "h">>, <<"i", "a", "g">>, <<"2">>>>

\* ---------------------------------------------- properties of tone sandhi

\* The positions <<g, i>> of the syllables in a list of sandhi scopes.
ScopePositions(groups) ==
    {<<g, i>> : g \in 1..Len(groups), i \in 1..MaxSyllables + 1} \cap
    {pos \in (1..Len(groups)) \X (1..MaxSyllables + 1) : pos[2] <= Len(groups[pos[1]])}

\* The rank, among all syllables of the text, of syllable i of scope g.
ScopeRank(groups, g, i) == Len(Concat([h \in 1..(g - 1) |-> groups[h]])) + i

\* Initial and rhyme of a syllable followed by a written tone contour.
WithContour(syl, contour) == NFC(syl[1] \o syl[2] \o contour)

\* Syllable i of the scope is the suffix e2 after a tone-2 or tone-4 syllable.
IsSuffixAfter24(group, i) ==
    /\ i > 1
    /\ group[i][4] = <<"e", "2">>
    /\ group[i - 1][3] \in {<<"2">>, <<"4">>}

\* C21: in siyen a tone-1 syllable whose next syllable in its scope has
\* tone 1, 3 or 8 is rendered with its base contour, the mark U+207B and the
\* tone-5 contour; a tone-1 syllable before tone 2, 4 or 5 or at the end of
\* its scope, and every syllable of another tone (the suffix e2 after tone 2
\* or 4 has a rule of its own), is rendered with its base contour alone.
C21_SiyenLookahead ==
    (pc = "done" /\ dialect = "siyen") =>
        LET groups == SandhiGroups(numbered)
        IN  \A pos \in ScopePositions(groups) :
                LET group == groups[pos[1]]
                    i == pos[2]
                    syl == group[i]
                    out == RenderedSyllable(ipa, ScopeRank(groups, pos[1], i))
                IN  IF /\ syl[3] = <<"1">>
                       /\ i < Len(group)
                       /\ group[i + 1][3] \in {<<"1">>, <<"3">>, <<"8">>}
                    THEN out = WithContour(syl, <<"U00B2", "U2074", "U207B", "U00B9", "U00B9">>)
                    ELSE ~IsSuffixAfter24(group, i) =>
                            out = WithContour(syl, SIYEN_TONE_VALUES[syl[3][1]])

\* sá sa in siyen: sa1 sa3, rendered with the substitute on the first syllable.
C21_Witness ==
    /\ pc = "done"
    /\ dialect = "siyen"
    /\ numbered = <<"s", "a", "1", " ", "s", "a", "3">>
    /\ ipa = <<"s", "a", "U00B2", "U2074", "U207B", "U00B9", "U00B9", " ",
               "s", "a", "U2075", "U2075">>

\* C22: in siyen the suffix e2 whose previous syllable in its scope has tone
\* 2 or 4 is rendered with its base contour, the mark U+207B and the tone-5
\* contour, whether or not a syllable follows it (the lookahead rule is not
\* applied to it); in hoiliuk a syllable spelled e2 after tone 2 or 4 is
\* rendered by the hoiliuk lookahead rule alone.
C22_SiyenLookback ==
    pc = "done" =>
        LET groups == SandhiGroups(numbered)
        IN  \A pos \in ScopePositions(groups) :
                LET group == groups[pos[1]]
                    i == pos[2]
                    out == RenderedSyllable(ipa, ScopeRank(groups, pos[1], i))
                IN  IsSuffixAfter24(group, i) =>
                        IF dialect = "siyen"
                        THEN out = <<"e", "U00B3", "U00B9", "U207B", "U00B9", "U00B9">>
                        ELSE out = (IF i < Len(group)
                                    THEN <<"e", "U00B2", "U2074", "U207B", "U00B3", "U00B3">>
                                    ELSE <<"e", "U00B2", "U2074">>)

\* sa with dot below, then è, in siyen: sa4 e2.
C22_Witness ==
    /\ pc = "done"
    /\ dialect = "siyen"
    /\ numbered = <<"s", "a", "4", " ", "e", "2">>
    /\ ipa = <<"s", "a", "U00B2", " ", "e", "U00B3", "U00B9", "U207B", "U00B9", "U00B9">>

\* C23: in hoiliuk a tone-2 syllable with a following syllable in its scope
\* is rendered with the contour 24, the mark U+207B and 33, a tone-4
\* syllable with a following syllable in its scope with 5, the mark and 2,
\* whatever the tone of the next syllable; the last syllable of a scope and
\* the syllables of the other tones are rendered with the base contour alone.
C23_HoiliukSandhi ==
    (pc = "done" /\ dialect = "hoiliuk") =>
        LET groups == SandhiGroups(numbered)
        IN  \A pos \in ScopePositions(groups) :
                LET group == groups[pos[1]]
                    i == pos[2]
                    syl == group[i]
                    out == RenderedSyllable(ipa, ScopeRank(groups, pos[1], i))
                IN  IF i < Len(group) /\ syl[3] = <<"2">>
                    THEN out = WithContour(syl, <<"U00B2", "U2074", "U207B", "U00B3", "U00B3">>)
                    ELSE IF i < Len(group) /\ syl[3] = <<"4">>
                    THEN out = WithContour(syl, <<"U2075", "U207B", "U00B2">>)
                    ELSE out = WithContour(syl, HOILIUK_TONE_VALUES[syl[3][1]])

\* pak sá in hoiliuk: pag4 sa2, the tone-4 syllable before a tone-2 syllable.
C23_Witness ==
    /\ pc = "done"
    /\ dialect = "hoiliuk"
    /\ numbered = <<"p", "a", "g", "4", " ", "s", "a", "2">>
    /\ ipa = <<"p", "U02B0", "a", "k", "U031A", "U2075", "U207B", "U00B2", " ",
               "s", "a", "U00B2", "U2074">>

\* The syllable tokens of a list of parts, in token order.
SyllableTokens(parts) == SelectSeq(parts, LAMBDA part : ~IsSeparator(part))

\* C27: the sandhi scopes of numbered_to_ipa partition the syllables: no
\* scope is empty, the scopes put one after the other are the syllable tokens
\* in token order (so every token is in exactly one scope, scopes are
\* contiguous, separators before the first syllable open no scope and the
\* last scope is closed at the end of the tokens), and the output holds one
\* rendered syllable for each syllable token, in the same order.
C27_ScopesPartition ==
    pc = "done" =>
        LET tokens == SyllableTokens(SplitParts(numbered))
            groups == SandhiGroups(numbered)
            rendered == SyllableTokens(SplitParts(ipa))
        IN  /\ \A g \in 1..Len(groups) : groups[g] # <<>>
            /\ Concat([g \in 1..Len(groups) |-> groups[g]])
                 = [n \in 1..Len(tokens) |-> IpaData(tokens[n])]
            /\ Len(rendered) = Len(tokens)
            /\ \A pos \in ScopePositions(groups) :
                   rendered[ScopeRank(groups, pos[1], pos[2])]
                     = NFC(SandhiSyllable(dialect, groups[pos[1]], pos[2]))

\* A phrase that starts with a comma and is cut into two scopes.
C27_Witness ==
    /\ pc = "done"
    /\ Head(numbered) = ","
    /\ Len(SandhiGroups(numbered)) = 2
    /\ Len(SyllableTokens(SplitParts(ipa))) = 3

\* ------------------------------------------ properties of the PFS spelling

\* A converter and one raw syllable to be converted.
SyllableInit ==
    /\ dialect \in Dialects
    /\ tone_map = (IF dialect = "siyen" THEN SIYEN_TONES ELSE HOILIUK_TONES)
    /\ original \in RawSyllables \cup {NFC(t) : t \in RawSyllables}
    /\ numbered = NotCalled
    /\ marked = NotCalled
    /\ pfs = NotCalled
    /\ ipa = NotCalled
    /\ pc = "original"
    /\ NoDriver
    /\ NoParser

SyllableSpec == SyllableInit /\ [][Next]_vars

\* The text with a mark put in after its first k characters.
InsertAt(text, k, mark) == SubSeq(text, 1, k) \o mark \o SubSeq(text, k + 1, Len(text))

\* The letters that can bear a PFS tone mark, highest priority first.
ToneBearers == <<"a", "o", "e", "u", "U1E73", "i">>

HasToneBearer(nucleus) ==
    \E i \in 1..Len(nucleus), k \in 1..Len(ToneBearers) : nucleus[i] = ToneBearers[k]

\* The numbered text is one siyen syllable token whose PFS form is known.
OneSiyenSyllable ==
    /\ pc \in {"pfs", "done"}
    /\ dialect = "siyen"
    /\ Len(SplitParts(numbered)) = 1
    /\ ~IsSeparator(SplitParts(numbered)[1])

\* C24: for a siyen syllable with a vowel nucleus the combining mark of the
\* tone stands immediately after the tone-bearing vowel: the o when the
\* respelled nucleus begins with oa, otherwise the first occurrence of the
\* first of a, o, e, u, U+1E73, i that the nucleus holds; for tones 3 and 4
\* the syllable holds no mark (the result is compared in composed form).
C24_PfsTonePlacement ==
    OneSiyenSyllable =>
        LET pieces == PfsPieces(numbered)
            nucleus == pieces[3]
            mark == Get(PFS_TONE_MARKS, pieces[1], <<>>)
            present == {k \in 1..Len(ToneBearers) :
                            \E i \in 1..Len(nucleus) : nucleus[i] = ToneBearers[k]}
            bearer == ToneBearers[Min(present)]
            at == IF StartsWith(nucleus, <<"o", "a">>) THEN 1
                  ELSE Min({i \in 1..Len(nucleus) : nucleus[i] = bearer})
        IN  HasToneBearer(nucleus) =>
                /\ pfs = NFC(pieces[2] \o InsertAt(nucleus, at, mark) \o pieces[4])
                /\ pieces[1] \in {"3", "4"} => mark = <<>>

\* sía in siyen: the mark of tone 1 is on the a of sia, not on the i.
C24_Witness ==
    /\ OneSiyenSyllable
    /\ numbered = <<"x", "i", "a", "1">>
    /\ pfs = <<"s", "i", "U00E2">>

\* C26: marking the tone of a siyen syllable loses no letter: the PFS
\* syllable is its respelled initial, nucleus and ending with at most the
\* tone mark put in somewhere, and a syllable other than m, n, ng whose
\* nucleus holds no tone-bearing vowel is returned without any mark.
C26_PfsKeepsLetters ==
    OneSiyenSyllable =>
        LET pieces == PfsPieces(numbered)
            plain == pieces[2] \o pieces[3] \o pieces[4]
            mark == Get(PFS_TONE_MARKS, pieces[1], <<>>)
        IN  /\ \E k \in 0..Len(plain) : pfs = NFC(InsertAt(plain, k, mark))
            /\ (~HasToneBearer(pieces[3])
                /\ plain \notin {<<"m">>, <<"n">>, <<"n", "g">>}) => pfs = NFC(plain)

\* The punctuation and syllable tokens of a numbered text, in order.
PfsTokens(text) ==
    SelectSeq(SplitParts(NormalizeDashes(text)), LAMBDA part : ~IsWhitespace(part))

\* The PFS text put together from the tokens: a hyphen between two syllables
\* with no punctuation between them, and a space after every punctuation
\* token that is not the em-dash (after the last token only if last_too).
PfsAssembled(tokens, last_too) ==
    Concat([i \in 1..Len(tokens) |->
        IF IsPunct(tokens[i])
        THEN tokens[i] \o (IF tokens[i] # <<"U2014">> /\ (last_too \/ i < Len(tokens))
                           THEN <<" ">> ELSE <<>>)
        ELSE (IF i > 1 /\ ~IsPunct(tokens[i - 1]) THEN <<"-">> ELSE <<>>)
             \o PfsSyllable(tokens[i])])

\* The PFS form of a non-empty siyen text is known.
SiyenPfsDone == pc \in {"pfs", "done"} /\ dialect = "siyen" /\ numbered # <<>>

C28_Idempotent ==
    (pc = "returned" /\ output_file # Absent) =>
        LET out == output_file[1]
            input == json_data.entries
        IN  /\ out.kind = "array" \/ (out.kind = "object" /\ out.has_entries)
            /\ Len(out.entries) = Len(input)
            /\ \A i \in 1..Len(out.entries) :
                   /\ EntryOutcome(out.entries[i]) = EntryOutcome(input[i])
                   /\ EntryOutcome(out.entries[i]) \in {"skip", "convert"}
                   /\ RunEntry(dialect, tone_map, out.entries[i]) = out.entries[i]
                   /\ IF EntryOutcome(input[i]) = "convert"
                      THEN out.entries[i].pronunciation[1].original
                             = <<JsonString(ReplaceAll(
                                     input[i].pronunciation[1].original[1].text,
                                     <<"-", "-">>, <<"U2014">>))>>
                      ELSE out.entries[i] = input[i]

\* A siyen run has written an entry whose original held "--".
C28_Witness ==
    /\ pc = "returned"
    /\ dialect = "siyen"
    /\ output_file # Absent
    /\ \E i \in 1..Len(json_data.entries) :
           /\ EntryOutcome(json_data.entries[i]) = "convert"
           /\ json_data.entries[i].pronunciation[1].original[1].text
                = <<"s", "a", "U0301", "-", "-", "p", "a", "k">>
           /\ output_file[1].entries[i].pronunciation[1].original[1].text
                = <<"s", "a", "U0301", "U2014", "p", "a", "k">>
           /\ output_file[1].entries[i].pronunciation[1].numbered
                = <<<<"s", "a", "1", "U2014", "p", "a", "g", "8">>>>

\* ------------------------------------------- hakka_parser.py: HakkaParser

(***************************************************************************)
(* A paragraph of the dictionary page is modelled by what parse asks of    *)
(* it: the answers of is_headword, is_character_entry and                  *)
(* is_definition_para, whether parse_compound_entry finds an entry in it,  *)
(* and the fields the parse_ functions read from it.  Pronunciations and   *)
(* characters are TLA+ strings; None is <<>> and a value v that may be     *)
(* None is <<v>>.                                                          *)
(***************************************************************************)
None == <<>>

\* Most paragraphs of a page.
MaxParagraphs == 4

DecimalDigits == <<"0", "1", "2", "3", "4", "5", "6", "7", "8", "9">>

RECURSIVE Str(_)
\* str(n) of a natural number: its decimal digits
Str(n) ==
    IF n < 10 THEN <<DecimalDigits[n + 1]>>
    ELSE Str(n \div 10) \o <<DecimalDigits[(n % 10) + 1]>>

RECURSIVE Dedupe(_, _)
\* [c for c in characters if c not in seen and not seen.add(c)]
Dedupe(characters, seen) ==
    IF characters = <<>> THEN <<>>
    ELSE IF Head(characters) \in seen THEN Dedupe(Tail(characters), seen)
    ELSE <<Head(characters)>> \o Dedupe(Tail(characters), seen \cup {Head(characters)})

\* The entry parse_headword returns.
HeadwordEntry(id, pronunciation, characters) ==
    [id |-> <<Str(id)>>, type |-> "headword", pronunciation |-> pronunciation,
     characters |-> Dedupe(characters, {}), character |-> "",
     classical_notes |-> None, literary_reading |-> None,
     vernacular_reading |-> None, definitions |-> <<>>]

\* The base entry parse makes for a character of a headword.
BaseCharacterEntry(id, pronunciation, char) ==
    [id |-> <<Str(id)>>, type |-> "character", pronunciation |-> pronunciation,
     characters |-> <<>>, character |-> char,
     classical_notes |-> None, literary_reading |-> None,
     vernacular_reading |-> None, definitions |-> <<>>]

\* The entry parse_character_entry returns, with the pronunciation parse
\* sets; its id is None until parse gives it one.
DetailedCharacterEntry(para, pronunciation) ==
    [id |-> None, type |-> "character",
     pronunciation |-> (IF pronunciation # None /\ pronunciation[1] # ""
                        THEN pronunciation[1] ELSE ""),
     characters |-> <<>>, character |-> para.character,
     classical_notes |-> para.classical_notes,
     literary_reading |-> para.literary_reading,
     vernacular_reading |-> para.vernacular_reading, definitions |-> <<>>]

\* The entry parse_compound_entry returns.
WordEntry(id, para) ==
    [id |-> <<Str(id)>>, type |-> "word", pronunciation |-> para.pronunciation,
     characters |-> <<>>, character |-> "",
     classical_notes |-> None, literary_reading |-> None,
     vernacular_reading |-> None, definitions |-> <<[marker |-> None]>>]

\* find_recent_character_entry: the index (from 1) of the last base entry of
\* the character with the pronunciation, or 0 for None.
FindRecentCharacterEntry(list, character, pronunciation) ==
    LET hit == {i \in 1..Len(list) :
                   /\ list[i].type = "character"
                   /\ list[i].character = character
                   /\ pronunciation = <<list[i].pronunciation>>
                   /\ list[i].classical_notes = None}
    IN  IF hit = {} THEN 0 ELSE CHOOSE i \in hit : \A j \in hit : j <= i

\* A merge that takes an id although it appends no entry.
IdAfterCharacter_Always(id, existing_idx) == id + 1

\* self.current_id after a character-entry paragraph (lines 1048-1062).
IdAfterCharacter(id, existing_idx) == IF existing_idx # 0 THEN id ELSE id + 1

\* A compound entry that leaves the pending character entry in place.
PendingAfterCompound_Kept(pending, found) == pending

\* pending_character_entry after parse_compound_entry (lines 1096-1099).
PendingAfterCompound(pending, found) == IF found THEN 0 ELSE pending

\* ------------------------------------------------- the paragraphs of a page

Paragraph(hw, ce, df, pron, chars, char, notes, literary, marker, compound) ==
    [is_headword |-> hw, is_character_entry |-> ce, is_definition_para |-> df,
     pronunciation |-> pron, characters |-> chars, character |-> char,
     classical_notes |-> notes, literary_reading |-> literary,
     vernacular_reading |-> None, marker |-> marker, compound |-> compound]

\* Headword paragraphs: a with the characters X and Y, o with X written
\* twice, a without characters.  What the other tests would say of them does
\* not matter to parse.
HeadwordParagraphs ==
    {Paragraph(TRUE, ce, df, h[1], h[2], "", None, None, None, FALSE) :
        ce \in BOOLEAN, df \in BOOLEAN,
        h \in {<<"a", <<"X", "Y">>>>, <<"o", <<"X", "X">>>>, <<"a", <<>>>>}}

\* Character-entry paragraphs for X and Y, with or without the notes.
CharacterParagraphs ==
    {Paragraph(FALSE, TRUE, df, "", <<>>, char, n[1], n[2], None, FALSE) :
        df \in BOOLEAN, char \in {"X", "Y"},
        n \in {<<None, None>>, <<<<"note">>, None>>, <<<<"note">>, <<"reading">>>>}}

\* Every other paragraph: indented or numbered or neither, and holding a
\* compound entry or not.
OtherParagraphs ==
    {Paragraph(FALSE, FALSE, df, "o", <<>>, "", None, None, marker, compound) :
        df \in BOOLEAN, compound \in BOOLEAN, marker \in {None, <<"U2460">>}}

Paragraphs == HeadwordParagraphs \cup CharacterParagraphs \cup OtherParagraphs

\* parser = HakkaParser(); parser.parse(html_path) is about to read the first
\* paragraph.  The converter and the batch driver are not used.
ParserInit ==
    /\ NoParser
    /\ pc = "parse"
    /\ dialect = "siyen"
    /\ tone_map = <<>>
    /\ original = NotCalled
    /\ numbered = NotCalled
    /\ marked = NotCalled
    /\ pfs = NotCalled
    /\ ipa = NotCalled
    /\ NoDriver

\* The next paragraph of the loop is one parse has not read yet.
NextParagraph == pc = "parse" /\ Len(parse_log) < MaxParagraphs

\* Branch 2 of the loop (lines 997-1026): a headword and a base character
\* entry for each of its characters.
HeadwordParagraph ==
    /\ NextParagraph
    /\ \E para \in Paragraphs :
        /\ para.is_headword
        /\ LET entry == HeadwordEntry(current_id, para.pronunciation, para.characters)
               chars == entry.characters
           IN  /\ self_entries' =
                    Append(self_entries, entry) \o
                    [k \in 1..Len(chars) |->
                        BaseCharacterEntry(current_id + k, para.pronunciation, chars[k])]
               /\ current_id' = current_id + 1 + Len(chars)
               /\ current_pronunciation' = <<para.pronunciation>>
               /\ pending_character_entry' = 0
               /\ parse_log' = Append(parse_log,
                                   [branch |-> "headword", entry |-> Len(self_entries) + 1,
                                    merged |-> FALSE])
    /\ UNCHANGED <<dialect, tone_map, original, numbered, marked, pfs, ipa, pc, driver>>

\* Branch 3 (lines 1029-1066): a detailed character entry is merged into the
\* base entry find_recent_character_entry returns, or appended as a new one.
CharacterParagraph ==
    /\ NextParagraph
    /\ \E para \in Paragraphs :
        /\ ~para.is_headword
        /\ para.is_character_entry
        /\ LET entry == DetailedCharacterEntry(para, current_pronunciation)
               existing_idx == FindRecentCharacterEntry(self_entries, entry.character,
                                                        current_pronunciation)
               target == IF existing_idx # 0 THEN existing_idx ELSE Len(self_entries) + 1
           IN  /\ self_entries' =
                    (IF existing_idx # 0
                     THEN [self_entries EXCEPT
                              ![existing_idx].classical_notes = entry.classical_notes,
                              ![existing_idx].literary_reading = entry.literary_reading,
                              ![existing_idx].vernacular_reading = entry.vernacular_reading]
                     ELSE Append(self_entries, [entry EXCEPT !.id = <<Str(current_id)>>]))
               /\ current_id' = IdAfterCharacter(current_id, existing_idx)
               /\ pending_character_entry' = target
               /\ parse_log' = Append(parse_log,
                                   [branch |-> "character", entry |-> target,
                                    merged |-> (existing_idx # 0)])
    /\ UNCHANGED <<dialect, tone_map, original, numbered, marked, pfs, ipa, pc, driver,
                   current_pronunciation>>

\* Branch 4 (lines 1069-1093): a definition paragraph is appended to the
\* pending character entry.
DefinitionParagraph ==
    /\ NextParagraph
    /\ pending_character_entry # 0
    /\ \E para \in Paragraphs :
        /\ ~para.is_headword
        /\ ~para.is_character_entry
        /\ para.is_definition_para
        /\ self_entries' =
             [self_entries EXCEPT ![pending_character_entry].definitions =
                 Append(@, [marker |-> para.marker])]
        /\ parse_log' = Append(parse_log,
                            [branch |-> "definition", entry |-> pending_character_entry,
                             merged |-> FALSE])
    /\ UNCHANGED <<dialect, tone_map, original, numbered, marked, pfs, ipa, pc, driver,
                   current_id, current_pronunciation, pending_character_entry>>

\* Branch 5 (lines 1096-1105): parse_compound_entry is tried on every other
\* paragraph; an entry it returns is appended and ends the pending
\* character entry.
CompoundParagraph ==
    /\ NextParagraph
    /\ \E para \in Paragraphs :
        /\ ~para.is_headword
        /\ ~para.is_character_entry
        /\ ~(pending_character_entry # 0 /\ para.is_definition_para)
        /\ pending_character_entry' =
             PendingAfterCompound(pending_character_entry, para.compound)
        /\ IF para.compound
           THEN /\ self_entries' = Append(self_entries, WordEntry(current_id, para))
                /\ current_id' = current_id + 1
                /\ parse_log' = Append(parse_log,
                                    [branch |-> "compound", entry |-> Len(self_entries) + 1,
                                     merged |-> FALSE])
           ELSE /\ parse_log' = Append(parse_log,
                                    [branch |-> "none", entry |-> 0, merged |-> FALSE])
                /\ UNCHANGED <<self_entries, current_id>>
    /\ UNCHANGED <<dialect, tone_map, original, numbered, marked, pfs, ipa, pc, driver,
                   current_pronunciation>>

\* The loop is over: parse returns self.entries.
ParseReturn ==
    /\ pc = "parse"
    /\ pc' = "parsed"
    /\ UNCHANGED <<dialect, tone_map, original, numbered, marked, pfs, ipa, driver, parser>>

ParserNext ==
    \/ HeadwordParagraph
    \/ CharacterParagraph
    \/ DefinitionParagraph
    \/ CompoundParagraph
    \/ ParseReturn

ParserSpec == ParserInit /\ [][ParserNext]_vars

\* ---------------------------------------------- properties of the parser

\* C29: at every point of parse the ids of the entries are the decimal
\* numerals 1, 2, 3, ... in entry order and current_id is the number of
\* entries plus one; so a detailed character paragraph merged into a base
\* entry, which appends nothing, takes no id.
C29_ParserIds ==
    pc \in {"parse", "parsed"} =>
        /\ \A i \in 1..Len(self_entries) : self_entries[i].id = <<Str(i)>>
        /\ \A i, j \in 1..Len(self_entries) :
               self_entries[i].id = self_entries[j].id => i = j
        /\ current_id = Len(self_entries) + 1

\* A page on which a character paragraph was merged into a base entry and
\* a later paragraph made a new entry.
C29_Witness ==
    /\ pc = "parsed"
    /\ \E k \in 1..Len(parse_log) :
           /\ parse_log[k].merged
           /\ \E later \in (k + 1)..Len(parse_log) :
                  /\ parse_log[later].branch = "compound"
                  /\ parse_log[later].entry = Len(self_entries)

\* The last paragraph before the current one that was a headword, a
\* character entry or a compound entry: <<branch, entry>>, or <<"none", 0>>.
LastOpener(log) ==
    LET at == {k \in 1..Len(log) : log[k].branch \in {"headword", "character", "compound"}}
    IN  IF at = {} THEN <<"none", 0>>
        ELSE LET k == CHOOSE k \in at : \A j \in at : j <= k
             IN  <<log[k].branch, log[k].entry>>

\* C30: whenever a step of parse changes the definitions of an entry E, it
\* appends one definition to them, E is a character entry, and the most
\* recent headword, character-entry or compound paragraph before the step is
\* a character-entry paragraph that produced or updated E.  No other step
\* touches definitions: after a headword or a compound entry no character
\* entry gets a definition until the next character-entry paragraph.
C30_DefinitionAttachment ==
    [][\A e \in 1..Len(self_entries) :
          self_entries'[e].definitions # self_entries[e].definitions =>
              /\ self_entries[e].type = "character"
              /\ LastOpener(parse_log) = <<"character", e>>
              /\ Len(self_entries'[e].definitions) = Len(self_entries[e].definitions) + 1
              /\ \A other \in (1..Len(self_entries)) \ {e} :
                     self_entries'[other].definitions = self_entries[other].definitions]_vars

\* A definition was attached to a character entry made after a compound
\* entry, and the page went on with a headword.
C30_Witness ==
    /\ Len(parse_log) = 4
    /\ parse_log[1].branch = "compound"
    /\ parse_log[2].branch = "character"
    /\ parse_log[3].branch = "definition"
    /\ parse_log[4].branch = "headword"
    /\ self_entries[parse_log[2].entry].definitions # <<>>

====
